---- MODULE Spec2Model ----
(***************************************************************************)
(* A model of the rhai parser front end (src/src/parser.rs).               *)
(*                                                                         *)
(* The main specification, Spec, is the recursive-descent parser run as a  *)
(* pushdown machine over an input that is chosen token by token: `frames`  *)
(* is the Rust call stack of productions (with the ParseSettings each one  *)
(* was given and its locals), `pstates` the stack of ParseState values (a  *)
(* function or closure body is parsed in a fresh ParseState), `ret` the    *)
(* value a production has just returned to its caller.  The engine of Spec *)
(* has max_expr_depth = 0 (no depth limit) and registers keyword-only      *)
(* custom syntaxes with the scope deltas in Deltas.  Statement terminators *)
(* are taken to be present.                                                *)
(*                                                                         *)
(* The depth limit, the literal size limits and the switch table are       *)
(* modelled by the specifications SpecDepth, SpecLit and SpecSwitch.       *)
(***************************************************************************)
EXTENDS Integers, Sequences, FiniteSets, TLC

\* ---------------------------------------------------------------- bounds
\* Tokens of a script that are counted: those that can stand last in their
\* construct (a leaf of an expression, a keyword or brace that opens a
\* statement, block or closure).  A token that must be followed by another
\* expression (an operator, `[`, `.`, `=`) is not counted.
MaxTokens == 3

\* Identifiers a script may use.
Names == {"a", "b"}

\* Names of functions and of module aliases.
FnNames == {"f"}
ModuleNames == {"m"}

\* scope_delta of the registered custom syntaxes.
Deltas == {-1, 1}

VARIABLES
    pstates,   \* stack of ParseState; the last one is the current `state`
    frames,    \* call stack of productions; the last one is running
    ret,       \* what the production that just returned gave its caller
    lib,       \* FunctionsLib: the functions collected so far
    ntok,      \* counted tokens consumed; stands for the Position reached
    result,    \* "parsing", "ok" or the ParseErrorType / "panic"
    ev,        \* history: what the last step did
    hist       \* history: bookkeeping the claims are stated against

vars == <<pstates, frames, ret, lib, ntok, result, ev, hist>>

\* ------------------------------------------------------------- ParseState
RW == "ReadWrite"
RO == "ReadOnly"

\* The empty externals map.
NoExternals == [n \in {} |-> 0]

\* ParseState::new.  `miss` and `barrier` are history fields: the first
\* position at which access_var returned None for a name while allow_capture
\* was true, and whether a barrier entry was ever pushed on this stack.
NewParseState ==
    [stack |-> <<>>, entry_stack_len |-> 0, externals |-> NoExternals,
     allow_capture |-> TRUE, modules |-> <<>>,
     miss |-> NoExternals, barrier |-> FALSE]

Min(S) == CHOOSE x \in S : \A y \in S : x <= y

\* The closure given to find() in access_var: offsets i (0-based from the
\* top) whose entry is not a barrier and has the name.
FindHits(stack, name) ==
    {i \in 0..(Len(stack) - 1) :
        /\ stack[Len(stack) - i].name # ""
        /\ stack[Len(stack) - i].name = name}

\* `index` of access_var: offset + 1 of the first hit from the top, 0 = None.
FindIndex(stack, name) ==
    IF FindHits(stack, name) = {} THEN 0 ELSE Min(FindHits(stack, name)) + 1

\* `barrier` of access_var: find() visited an empty-named entry before it
\* stopped (it stops at the first hit, or at the bottom).
SawBarrier(stack, name) ==
    LET idx == FindIndex(stack, name)
        seen == IF idx = 0 THEN Len(stack) ELSE idx - 1
    IN  \E i \in 0..(seen - 1) : stack[Len(stack) - i].name = ""

\* A plausible slip: a later miss overwrites the position of the first one.
CaptureOverwrites(st, name, pos, index) ==
    IF st.allow_capture /\ index = 0
    THEN [n \in DOMAIN st.externals \cup {name} |->
             IF n = name THEN pos ELSE st.externals[n]]
    ELSE st.externals

\* externals after access_var (the allow_capture branch, lines 133-136).
Capture(st, name, pos, index) ==
    IF st.allow_capture
    THEN IF index = 0 /\ name \notin DOMAIN st.externals
         THEN [n \in DOMAIN st.externals \cup {name} |->
                  IF n = name THEN pos ELSE st.externals[n]]
         ELSE st.externals
    ELSE st.externals

\* A plausible slip: the barrier flag is not consulted.
AccessResultNoBarrier(stack, name) == FindIndex(stack, name)

\* The value access_var returns (0 = None).
AccessResult(stack, name) ==
    IF SawBarrier(stack, name) THEN 0 ELSE FindIndex(stack, name)

\* A plausible slip: a lookup made while capturing is off leaves it off.
AccessVarFlagStays(st, name, pos) ==
    [st EXCEPT
        !.externals = Capture(st, name, pos, FindIndex(st.stack, name)),
        !.miss = IF st.allow_capture /\ AccessResult(st.stack, name) = 0
                    /\ name \notin DOMAIN st.miss
                 THEN [n \in DOMAIN st.miss \cup {name} |->
                          IF n = name THEN pos ELSE st.miss[n]]
                 ELSE st.miss]

\* ParseState::access_var: the state it leaves.  The history field `miss`
\* is kept from the returned value and the allow_capture seen on entry.
AccessVar(st, name, pos) ==
    [st EXCEPT
        !.externals = Capture(st, name, pos, FindIndex(st.stack, name)),
        !.allow_capture = TRUE,
        !.miss = IF st.allow_capture /\ AccessResult(st.stack, name) = 0
                    /\ name \notin DOMAIN st.miss
                 THEN [n \in DOMAIN st.miss \cup {name} |->
                          IF n = name THEN pos ELSE st.miss[n]]
                 ELSE st.miss]

\* ParseState::find_module.
FindModule(modules, name) ==
    LET hits == {i \in 0..(Len(modules) - 1) : modules[Len(modules) - i] = name}
    IN  IF hits = {} THEN 0 ELSE Min(hits) + 1

\* Vec::truncate.
Truncate(s, n) == IF n < Len(s) THEN SubSeq(s, 1, n) ELSE s


\* ------------------------------------------------------------ expressions
\* Expr values.  `slot` of a Variable is a history field: the access mode of
\* the stack entry the variable resolved to when it was created.
NoExpr == [t |-> "None"]
Variable(index, name, slot) ==
    [t |-> "Variable", index |-> index, ns |-> FALSE, name |-> name, slot |-> slot]
Property(name) == [t |-> "Property", name |-> name]
IntegerConstant == [t |-> "IntegerConstant"]
FnCall(name, args, capture) ==
    [t |-> "FnCall", name |-> name, args |-> args, capture |-> capture, ns |-> FALSE]
Dot(lhs, rhs) == [t |-> "Dot", lhs |-> lhs, rhs |-> rhs]
Index(lhs, rhs) == [t |-> "Index", lhs |-> lhs, rhs |-> rhs]
StmtExpr == [t |-> "Stmt"]
CustomExpr == [t |-> "Custom"]
FnPointer(name) == [t |-> "FnPointer", name |-> name]

\* A plausible slip: the variable is left as it is.
IntoPropertyKeepsVariable(e) == e

\* Expr::into_property.
IntoProperty(e) ==
    IF e.t = "Variable" /\ ~e.ns THEN Property(e.name) ELSE e

\* make_dot_expr: [ok |-> ..., e |-> ..., err |-> ...].
RECURSIVE MakeDotExpr(_, _)
MakeDotExpr(lhs, rhs) ==
    IF lhs.t = "Index" THEN
        LET inner == MakeDotExpr(lhs.rhs, rhs)
        IN  IF inner.ok
            THEN [ok |-> TRUE, e |-> Index(lhs.lhs, inner.e), err |-> ""]
            ELSE inner
    ELSE IF rhs.t = "Variable" /\ ~rhs.ns THEN
        [ok |-> TRUE, e |-> Dot(lhs, Property(rhs.name)), err |-> ""]
    ELSE IF rhs.t = "Variable" THEN
        [ok |-> FALSE, e |-> NoExpr, err |-> "PropertyExpected"]
    ELSE IF rhs.t = "Property" THEN
        [ok |-> TRUE, e |-> Dot(lhs, rhs), err |-> ""]
    ELSE IF rhs.t = "Dot" THEN
        [ok |-> TRUE, e |-> Dot(lhs, Dot(IntoProperty(rhs.lhs), rhs.rhs)), err |-> ""]
    ELSE IF rhs.t = "Index" THEN
        [ok |-> TRUE, e |-> Dot(lhs, Index(IntoProperty(rhs.lhs), rhs.rhs)), err |-> ""]
    ELSE IF rhs.t = "FnCall" /\ Len(rhs.args) = 0 /\ rhs.name \in {"Fn", "eval"} THEN
        [ok |-> FALSE, e |-> NoExpr, err |-> "ImproperSymbol"]
    ELSE IF rhs.t = "FnCall" /\ rhs.capture THEN
        [ok |-> FALSE, e |-> NoExpr, err |-> "MalformedCapture"]
    ELSE IF rhs.t = "FnCall" THEN
        [ok |-> TRUE, e |-> Dot(lhs, rhs), err |-> ""]
    ELSE [ok |-> FALSE, e |-> NoExpr, err |-> "PropertyExpected"]

\* check_lvalue of make_assignment_stmt: TRUE when it returns Position::NONE.
\* (The two unreachable!() arms are reported as not-NONE.)
RECURSIVE CheckLvalue(_, _)
CheckLvalue(expr, parent_is_dot) ==
    IF expr.t \in {"Index", "Dot"} /\ parent_is_dot THEN
        IF expr.lhs.t = "Property"
        THEN CheckLvalue(expr.rhs, expr.t = "Dot")
        ELSE FALSE
    ELSE IF expr.t \in {"Index", "Dot"} THEN
        IF expr.lhs.t = "Property"
        THEN FALSE
        ELSE CheckLvalue(expr.rhs, expr.t = "Dot")
    ELSE IF expr.t = "Property" THEN parent_is_dot
    ELSE ~parent_is_dot

\* The Variable arms of make_assignment_stmt: the access mode is read from
\* stack[len - index] as the stack is when the assignment is made.
AssignToVariable(stack, v) ==
    IF v.index = 0 THEN "ok"
    ELSE IF Len(stack) - v.index < 0 THEN "panic"
    ELSE IF stack[Len(stack) - v.index + 1].mode = RW THEN "ok"
    ELSE "AssignmentToConstant"

\* make_assignment_stmt: "ok" or the error.
MakeAssignmentStmt(stack, lhs) ==
    IF lhs.t = "IntegerConstant" THEN "AssignmentToConstant"
    ELSE IF lhs.t = "Variable" THEN AssignToVariable(stack, lhs)
    ELSE IF lhs.t \in {"Index", "Dot"} THEN
        IF CheckLvalue(lhs.rhs, lhs.t = "Dot")
        THEN IF lhs.lhs.t = "Variable"
             THEN AssignToVariable(stack, lhs.lhs)
             ELSE "AssignmentToInvalidLHS"
        ELSE "AssignmentToInvalidLHS"
    ELSE IF lhs.t \in {"And", "Or"} THEN "ImproperSymbol"
    ELSE "AssignmentToInvalidLHS"


\* ----------------------------------------------------- frames and settings
\* The ParseSettings fields the productions of Spec read.  The allow_*
\* flags are all true in parse_global_level, parse_stmt's `fn` arm and the
\* closure arm of parse_primary; level is not limited here.
GlobalSettings == [is_global |-> TRUE, is_function_scope |-> FALSE, is_breakable |-> FALSE]
\* A plausible slip: a function body starts out breakable.
FnSettingsBreakable ==
    [is_global |-> FALSE, is_function_scope |-> TRUE, is_breakable |-> TRUE]

\* The settings a function or closure body is parsed with.
FnSettings == [is_global |-> FALSE, is_function_scope |-> TRUE, is_breakable |-> FALSE]

NoSnap == [stack |-> <<>>, modules |-> <<>>, entry_stack_len |-> 0]

\* A call frame: production k at point pc, its settings s and its locals
\* (n1, n2: saved lengths; x: an expression held; nm, md: a name and mode).
\* g is a history field: the ParseState stacks when a block was entered.
Frame(k, pc, s) ==
    [k |-> k, pc |-> pc, s |-> s, n1 |-> 0, n2 |-> 0, x |-> NoExpr,
     nm |-> "", md |-> "", g |-> NoSnap]

NoRet == [kind |-> "none"]
RetStmt == [kind |-> "stmt"]
RetBlock == [kind |-> "block"]
RetExpr(e) == [kind |-> "expr", e |-> e]

NoEvent == [t |-> "none"]

top == frames[Len(frames)]
st == pstates[Len(pstates)]
Pop(s) == SubSeq(s, 1, Len(s) - 1)
SetTop(s, v) == [s EXCEPT ![Len(s)] = v]
Push2(s, a, b) == Append(Append(s, a), b)

Running == result = "parsing" /\ ret = NoRet
More == ntok < MaxTokens

\* The statement loops: parse_global_level, parse_block, and the single
\* body statement of parse_anon_fn.
AtStmt == Running /\ top.k \in {"global", "block", "anon"} /\ top.pc = "stmt"

\* An Err is handed up through every caller by `?`: the productions and
\* their ParseStates are gone, the caller's lib stays as it is.
Unwind(err) ==
    /\ result' = err
    /\ frames' = <<>>
    /\ pstates' = <<>>
    /\ ret' = NoRet
    /\ UNCHANGED <<lib, ntok, hist>>

Fail(err) == Unwind(err) /\ ev' = NoEvent

Init ==
    /\ pstates = <<NewParseState>>
    /\ frames = <<Frame("global", "stmt", GlobalSettings)>>
    /\ ret = NoRet
    /\ lib = {}
    /\ ntok = 0
    /\ result = "parsing"
    /\ ev = NoEvent
    /\ hist = [lets |-> <<>>, imports |-> <<>>, delta |-> FALSE]

\* ------------------------------------------------------------- parse_block
\* The frame of a parse_block call and the state after lines 2453-2457.
BlockFrame(state, s) ==
    [Frame("block", "stmt", [s EXCEPT !.is_global = FALSE]) EXCEPT
        !.n1 = state.entry_stack_len,
        !.n2 = Len(state.modules),
        !.g = [stack |-> state.stack, modules |-> state.modules,
               entry_stack_len |-> state.entry_stack_len]]

BlockEntry(state) == [state EXCEPT !.entry_stack_len = Len(state.stack)]

\* Lines 2502-2506.
BlockExit(state, f) ==
    [state EXCEPT !.stack = Truncate(state.stack, state.entry_stack_len),
                  !.entry_stack_len = f.n1,
                  !.modules = Truncate(state.modules, f.n2)]

\* parse_stmt, `{`: a block statement.
StmtBlock ==
    /\ AtStmt /\ More
    /\ frames' = Append(frames, BlockFrame(st, top.s))
    /\ pstates' = SetTop(pstates, BlockEntry(st))
    /\ ntok' = ntok + 1
    /\ ev' = NoEvent
    /\ UNCHANGED <<ret, lib, result, hist>>

\* A production that needs a block next: the bodies of while/loop, do, for,
\* try, catch and fn.
OpenBody ==
    /\ Running
    /\ top.k \in {"while", "do", "for", "try", "fn"}
    /\ top.pc \in {"body", "catch"}
    /\ frames' = Append(SetTop(frames, [top EXCEPT !.pc = "in" \o top.pc]),
                        BlockFrame(st, top.s))
    /\ pstates' = SetTop(pstates, BlockEntry(st))
    /\ ev' = NoEvent
    /\ UNCHANGED <<ret, lib, ntok, result, hist>>

\* The same productions when the next token is not `{`.
BodyMissing ==
    /\ Running
    /\ top.k \in {"while", "do", "for", "try", "fn"}
    /\ top.pc \in {"body", "catch"}
    /\ Fail(IF top.k = "fn" THEN "FnMissingBody" ELSE "MissingToken")

\* parse_block, `}`.
CloseBlock ==
    /\ Running
    /\ top.k = "block" /\ top.pc = "stmt"
    /\ pstates' = SetTop(pstates, BlockExit(st, top))
    /\ frames' = Pop(frames)
    /\ ret' = RetBlock
    /\ ev' = [t |-> "BlockExit", g |-> top.g]
    /\ UNCHANGED <<lib, ntok, result, hist>>

\* A statement loop takes the statement its parse_stmt returned.
StmtDone ==
    /\ result = "parsing"
    /\ ret.kind \in {"stmt", "block"}
    /\ top.k \in {"global", "block"} /\ top.pc = "stmt"
    /\ ret' = NoRet
    /\ ev' = NoEvent
    /\ UNCHANGED <<pstates, frames, lib, ntok, result, hist>>

\* parse_global_level at EOF.
GlobalEOF ==
    /\ Running
    /\ top.k = "global"
    /\ result' = "ok"
    /\ ev' = NoEvent
    /\ UNCHANGED <<pstates, frames, ret, lib, ntok, hist>>

\* --------------------------------------------------------- let and import
PushVar(state, name, mode) ==
    [state EXCEPT !.stack = Append(state.stack, [name |-> name, mode |-> mode])]

\* A plausible slip: parse_let leaves the binding off the stack.
LetBindNothing(state, name, mode) == state

\* Lines 2282-2297 of parse_let.
LetBind(state, name, mode) == PushVar(state, name, mode)

\* The let/const of a parse_stmt that parse_global_level called.
NoteLet(f, name, mode) ==
    IF f.k = "global"
    THEN [hist EXCEPT !.lets = Append(hist.lets, [name |-> name, mode |-> mode])]
    ELSE hist

\* parse_stmt, `let`/`const` without initializer.
StmtLet ==
    /\ AtStmt /\ More
    /\ \E name \in Names, mode \in {RW, RO} :
        /\ pstates' = SetTop(pstates, LetBind(st, name, mode))
        /\ hist' = NoteLet(top, name, mode)
    /\ ntok' = ntok + 1
    /\ ret' = RetStmt
    /\ ev' = NoEvent
    /\ UNCHANGED <<frames, lib, result>>

\* parse_stmt, `let`/`const` name `=`: the initializer is parsed first.
StmtLetInit ==
    /\ AtStmt /\ More
    /\ \E name \in Names, mode \in {RW, RO} :
        frames' = Push2(frames,
                        [Frame("let", "init", top.s) EXCEPT !.nm = name, !.md = mode],
                        Frame("expr", "start", top.s))
    /\ ev' = NoEvent
    /\ UNCHANGED <<pstates, ret, lib, ntok, result, hist>>

LetDone ==
    /\ result = "parsing" /\ ret.kind = "expr"
    /\ top.k = "let"
    /\ pstates' = SetTop(pstates, LetBind(st, top.nm, top.md))
    /\ hist' = NoteLet(frames[Len(frames) - 1], top.nm, top.md)
    /\ frames' = Pop(frames)
    /\ ret' = RetStmt
    /\ ev' = NoEvent
    /\ UNCHANGED <<lib, ntok, result>>

\* parse_stmt, `import`: the path expression comes first.
StmtImport ==
    /\ AtStmt /\ More
    /\ frames' = Push2(frames, Frame("import", "path", top.s),
                       Frame("expr", "start", top.s))
    /\ ev' = NoEvent
    /\ UNCHANGED <<pstates, ret, lib, ntok, result, hist>>

\* parse_import after the path: `as name` pushes the alias.
ImportAs ==
    /\ result = "parsing" /\ ret.kind = "expr"
    /\ top.k = "import"
    /\ \E name \in ModuleNames :
        /\ pstates' = SetTop(pstates, [st EXCEPT !.modules = Append(st.modules, name)])
        /\ hist' = IF frames[Len(frames) - 1].k = "global"
                   THEN [hist EXCEPT !.imports = Append(hist.imports, name)]
                   ELSE hist
    /\ frames' = Pop(frames)
    /\ ret' = RetStmt
    /\ ev' = NoEvent
    /\ UNCHANGED <<lib, ntok, result>>

\* parse_import without `as`.
ImportPlain ==
    /\ result = "parsing" /\ ret.kind = "expr"
    /\ top.k = "import"
    /\ frames' = Pop(frames)
    /\ ret' = RetStmt
    /\ ev' = NoEvent
    /\ UNCHANGED <<pstates, lib, ntok, result, hist>>

\* ------------------------------------------------------ loops, try, break
Breakable(s) == [s EXCEPT !.is_breakable = TRUE]
Unbreakable(s) == [s EXCEPT !.is_breakable = FALSE]

\* parse_stmt, `loop`: parse_while_loop with a constant guard.
StmtLoop ==
    /\ AtStmt /\ More
    /\ frames' = Append(frames, Frame("while", "body", Breakable(top.s)))
    /\ ntok' = ntok + 1
    /\ ev' = NoEvent
    /\ UNCHANGED <<pstates, ret, lib, result, hist>>

\* parse_stmt, `while`: the guard is parsed with the caller's settings.
StmtWhile ==
    /\ AtStmt /\ More
    /\ frames' = Push2(frames, Frame("while", "guard", top.s),
                       Frame("expr", "start", top.s))
    /\ ev' = NoEvent
    /\ UNCHANGED <<pstates, ret, lib, ntok, result, hist>>

WhileGuardDone ==
    /\ result = "parsing" /\ ret.kind = "expr"
    /\ top.k = "while" /\ top.pc = "guard"
    /\ frames' = SetTop(frames, [top EXCEPT !.pc = "body", !.s = Breakable(top.s)])
    /\ ret' = NoRet
    /\ ev' = NoEvent
    /\ UNCHANGED <<pstates, lib, ntok, result, hist>>

\* parse_stmt, `do`.
StmtDo ==
    /\ AtStmt /\ More
    /\ frames' = Append(frames, Frame("do", "body", Breakable(top.s)))
    /\ ntok' = ntok + 1
    /\ ev' = NoEvent
    /\ UNCHANGED <<pstates, ret, lib, result, hist>>

\* parse_do after the body: `while`/`until` and the guard, not breakable.
DoGuard ==
    /\ result = "parsing" /\ ret.kind = "block"
    /\ top.k = "do" /\ top.pc = "inbody"
    /\ frames' = Append(SetTop(frames, [top EXCEPT !.pc = "guard"]),
                        Frame("expr", "start", Unbreakable(top.s)))
    /\ ret' = NoRet
    /\ ev' = NoEvent
    /\ UNCHANGED <<pstates, lib, ntok, result, hist>>

\* parse_stmt, `for name in`: the iterated expression comes first.
StmtFor ==
    /\ AtStmt /\ More
    /\ \E name \in Names :
        frames' = Push2(frames, [Frame("for", "iter", top.s) EXCEPT !.nm = name],
                        Frame("expr", "start", top.s))
    /\ ev' = NoEvent
    /\ UNCHANGED <<pstates, ret, lib, ntok, result, hist>>

\* parse_for after the iterated expression: the loop variable is pushed.
ForBind ==
    /\ result = "parsing" /\ ret.kind = "expr"
    /\ top.k = "for" /\ top.pc = "iter"
    /\ frames' = SetTop(frames, [top EXCEPT !.pc = "body", !.s = Breakable(top.s),
                                            !.n1 = Len(st.stack)])
    /\ pstates' = SetTop(pstates, PushVar(st, top.nm, RW))
    /\ ret' = NoRet
    /\ ev' = NoEvent
    /\ UNCHANGED <<lib, ntok, result, hist>>

\* parse_stmt, `try`.
StmtTry ==
    /\ AtStmt /\ More
    /\ frames' = Append(frames, Frame("try", "body", top.s))
    /\ ntok' = ntok + 1
    /\ ev' = NoEvent
    /\ UNCHANGED <<pstates, ret, lib, result, hist>>

\* parse_try_catch after the body: `catch`, with or without a variable,
\* which is not put on the stack.
TryCatch ==
    /\ result = "parsing" /\ ret.kind = "block"
    /\ top.k = "try" /\ top.pc = "inbody"
    /\ frames' = SetTop(frames, [top EXCEPT !.pc = "catch"])
    /\ ret' = NoRet
    /\ ev' = NoEvent
    /\ UNCHANGED <<pstates, lib, ntok, result, hist>>

\* The statement is complete: the body of while/loop and for, the guard of
\* do, the catch block of try.  parse_for cuts the stack back to where it
\* was before the loop variable.
LoopDone ==
    /\ result = "parsing"
    /\ \/ top.k \in {"while", "for"} /\ top.pc = "inbody" /\ ret.kind = "block"
       \/ top.k = "do" /\ top.pc = "guard" /\ ret.kind = "expr"
       \/ top.k = "try" /\ top.pc = "incatch" /\ ret.kind = "block"
    /\ pstates' = IF top.k = "for"
                  THEN SetTop(pstates, [st EXCEPT !.stack = Truncate(st.stack, top.n1)])
                  ELSE pstates
    /\ frames' = Pop(frames)
    /\ ret' = RetStmt
    /\ ev' = NoEvent
    /\ UNCHANGED <<lib, ntok, result, hist>>

\* parse_stmt, `break`/`continue`.
StmtBreak ==
    /\ AtStmt /\ More
    /\ top.s.is_breakable
    /\ ntok' = ntok + 1
    /\ ret' = RetStmt
    /\ ev' = [t |-> "Break"]
    /\ UNCHANGED <<pstates, frames, lib, result, hist>>

StmtBreakOutside ==
    /\ AtStmt /\ More
    /\ ~top.s.is_breakable
    /\ Fail("LoopBreak")

\* ----------------------------------------------------------- fn statement
FnParams == {<<>>, <<"a">>}

RECURSIVE PushParams(_, _)
PushParams(state, params) ==
    IF params = <<>> THEN state
    ELSE PushParams(PushVar(state, Head(params), RW), Tail(params))

\* lib.insert: keyed by the hash of name and arity.
\* `by` and `glob` are history fields: the production that inserted the entry
\* and whether its statement stood at global level.
LibInsert(l, name, arity, access, by, glob) ==
    {f \in l : ~(f.name = name /\ f.arity = arity)}
        \cup {[name |-> name, arity |-> arity, access |-> access,
                by |-> by, glob |-> glob]}

\* The guard of parse_stmt's fn arms: only Token::Fn is turned away outside
\* the global level.
FnAllowed(token, s) == token = "private" \/ s.is_global

\* A plausible slip: the function is parsed on a copy of the enclosing state.
StmtFnInheritsScope ==
    /\ AtStmt /\ More
    /\ \E token \in {"fn", "private"}, name \in FnNames, params \in FnParams :
        /\ FnAllowed(token, top.s)
        /\ frames' = Append(frames,
              [Frame("fn", "body", FnSettings) EXCEPT
                  !.nm = name, !.md = token, !.n1 = Len(params),
                  !.n2 = IF top.s.is_global THEN 1 ELSE 0])
        /\ pstates' = Append(pstates, PushParams(st, params))
    /\ ntok' = ntok + 1
    /\ ev' = NoEvent
    /\ UNCHANGED <<ret, lib, result, hist>>

\* parse_stmt, `fn` or `private fn`: name and parameters on a new ParseState.
\* md keeps the access, n1 the arity and n2 (1 or 0) whether the statement was
\* at global level.
StmtFn ==
    /\ AtStmt /\ More
    /\ \E token \in {"fn", "private"}, name \in FnNames, params \in FnParams :
        /\ FnAllowed(token, top.s)
        /\ frames' = Append(frames,
              [Frame("fn", "body", FnSettings) EXCEPT
                  !.nm = name, !.md = token, !.n1 = Len(params),
                  !.n2 = IF top.s.is_global THEN 1 ELSE 0])
        /\ pstates' = Append(pstates, PushParams(NewParseState, params))
    /\ ntok' = ntok + 1
    /\ ev' = NoEvent
    /\ UNCHANGED <<ret, lib, result, hist>>

\* parse_stmt, `fn` where no definition is allowed.
StmtFnWrong ==
    /\ AtStmt /\ More
    /\ ~FnAllowed("fn", top.s)
    /\ Fail("WrongFnDefinition")

\* parse_fn returned: the definition goes into lib.
FnDone ==
    /\ result = "parsing" /\ ret.kind = "block"
    /\ top.k = "fn" /\ top.pc = "inbody"
    /\ lib' = LibInsert(lib, top.nm, top.n1, top.md, "parse_stmt", top.n2 = 1)
    /\ pstates' = Pop(pstates)
    /\ frames' = Pop(frames)
    /\ ret' = RetStmt
    /\ ev' = [t |-> "FnDecl", name |-> top.nm, access |-> top.md, glob |-> top.n2 = 1]
    /\ UNCHANGED <<ntok, result, hist>>

\* -------------------------------------------------- expression statements
\* parse_stmt, any other token: parse_expr_stmt.
StmtExprStart ==
    /\ AtStmt /\ More
    /\ frames' = Push2(frames, Frame("exprstmt", "lhs", top.s),
                       Frame("expr", "start", top.s))
    /\ ev' = NoEvent
    /\ UNCHANGED <<pstates, ret, lib, ntok, result, hist>>

\* parse_op_assignment_stmt, no assignment operator follows.
ExprStmtDone ==
    /\ result = "parsing" /\ ret.kind = "expr"
    /\ top.k = "exprstmt" /\ top.pc = "lhs"
    /\ frames' = Pop(frames)
    /\ ret' = RetStmt
    /\ ev' = NoEvent
    /\ UNCHANGED <<pstates, lib, ntok, result, hist>>

\* parse_op_assignment_stmt, `=` or `op=`: the right side is parsed next.
AssignOp ==
    /\ result = "parsing" /\ ret.kind = "expr"
    /\ top.k = "exprstmt" /\ top.pc = "lhs"
    /\ More
    /\ frames' = Append(SetTop(frames, [top EXCEPT !.pc = "rhs", !.x = ret.e]),
                        Frame("expr", "start", top.s))
    /\ ret' = NoRet
    /\ ev' = NoEvent
    /\ UNCHANGED <<pstates, lib, ntok, result, hist>>

\* make_assignment_stmt with the right side parsed.  An out-of-range slot
\* is a panic of the parser.
AssignDone ==
    /\ result = "parsing" /\ ret.kind = "expr"
    /\ top.k = "exprstmt" /\ top.pc = "rhs"
    /\ LET out == MakeAssignmentStmt(st.stack, top.x)
       IN  /\ ev' = [t |-> "Assign", lhs |-> top.x, out |-> out, stack |-> st.stack]
           /\ IF out = "ok"
              THEN /\ frames' = Pop(frames)
                   /\ ret' = RetStmt
                   /\ UNCHANGED result
                   /\ UNCHANGED <<pstates, lib, ntok, hist>>
              ELSE Unwind(out)

\* ------------------------------------------------------------- parse_expr
\* A plausible slip: Vec::resize is given the delta, not the new length.
ScopeDeltaResizeToDelta(stack, delta) ==
    IF delta > 0 /\ Len(stack) >= delta THEN SubSeq(stack, 1, delta)
    ELSE IF delta > 0
    THEN stack \o [i \in 1..(delta - Len(stack)) |-> [name |-> "", mode |-> RW]]
    ELSE IF delta < 0 /\ Len(stack) <= -delta THEN <<>>
    ELSE IF delta < 0 THEN SubSeq(stack, 1, Len(stack) + delta)
    ELSE stack

\* scope_delta of parse_custom_syntax.
ScopeDelta(stack, delta) ==
    IF delta > 0
    THEN stack \o [i \in 1..delta |-> [name |-> "", mode |-> RW]]
    ELSE IF delta < 0 /\ Len(stack) <= -delta THEN <<>>
    ELSE IF delta < 0 THEN SubSeq(stack, 1, Len(stack) + delta)
    ELSE stack

\* parse_expr, the first token is the key of a custom syntax (one keyword,
\* no further segments): the scope delta is applied and never undone.
ExprCustom ==
    /\ Running /\ More
    /\ top.k = "expr" /\ top.pc = "start"
    /\ \E delta \in Deltas :
        pstates' = SetTop(pstates,
            [st EXCEPT !.stack = ScopeDelta(st.stack, delta),
                       !.barrier = st.barrier \/ delta > 0])
    /\ hist' = [hist EXCEPT !.delta = hist.delta \/ Len(pstates) = 1]
    /\ frames' = Pop(frames)
    /\ ret' = RetExpr(CustomExpr)
    /\ ntok' = ntok + 1
    /\ ev' = [t |-> "Custom"]
    /\ UNCHANGED <<lib, result>>

\* parse_expr otherwise: parse_unary, which hands a token that is no prefix
\* operator to parse_primary.
ExprStart ==
    /\ Running /\ More
    /\ top.k = "expr" /\ top.pc = "start"
    /\ frames' = Append(SetTop(frames, [top EXCEPT !.pc = "lhs"]),
                        Frame("primary", "start", top.s))
    /\ ev' = NoEvent
    /\ UNCHANGED <<pstates, ret, lib, ntok, result, hist>>

\* parse_binary_op: an operator follows, its right operand is parsed.
ExprBinOp ==
    /\ result = "parsing" /\ ret.kind = "expr"
    /\ top.k = "expr" /\ top.pc = "lhs"
    /\ More
    /\ frames' = Append(SetTop(frames, [top EXCEPT !.pc = "rhs", !.x = ret.e]),
                        Frame("primary", "start", top.s))
    /\ ret' = NoRet
    /\ ev' = NoEvent
    /\ UNCHANGED <<pstates, lib, ntok, result, hist>>

\* parse_binary_op: the operator call is built and the loop goes on.
ExprFold ==
    /\ result = "parsing" /\ ret.kind = "expr"
    /\ top.k = "expr" /\ top.pc = "rhs"
    /\ frames' = SetTop(frames, [top EXCEPT !.pc = "lhs", !.x = NoExpr])
    /\ ret' = RetExpr(FnCall("+", <<top.x, ret.e>>, FALSE))
    /\ ev' = NoEvent
    /\ UNCHANGED <<pstates, lib, ntok, result, hist>>

\* parse_binary_op: no operator follows, parse_expr returns.
ExprEnd ==
    /\ result = "parsing" /\ ret.kind = "expr"
    /\ top.k = "expr" /\ top.pc = "lhs"
    /\ frames' = Pop(frames)
    /\ ev' = NoEvent
    /\ UNCHANGED <<pstates, ret, lib, ntok, result, hist>>

\* ---------------------------------------------------------- parse_primary
AtPrimary(pcs) == Running /\ More /\ top.k = "primary" /\ top.pc \in pcs

Hold(e, pc) == SetTop(frames, [top EXCEPT !.x = e, !.pc = pc])

\* The mode of the slot a resolved index points at (history).
SlotMode(stack, index) ==
    IF index = 0 THEN "" ELSE stack[Len(stack) - index + 1].mode

\* An integer literal.
PrimaryLiteral ==
    /\ AtPrimary({"start"})
    /\ frames' = Hold(IntegerConstant, "tail")
    /\ ntok' = ntok + 1
    /\ ev' = NoEvent
    /\ UNCHANGED <<pstates, ret, lib, result, hist>>

\* An identifier not followed by `(`, `!` or `::`: access_var.
PrimaryIdent ==
    /\ AtPrimary({"start", "ident"})
    /\ \E name \in Names :
        LET index == AccessResult(st.stack, name)
        IN  /\ pstates' = SetTop(pstates, AccessVar(st, name, ntok + 1))
            /\ frames' = Hold(Variable(index, name, SlotMode(st.stack, index)), "tail")
            /\ ev' = [t |-> "Variable", name |-> name, index |-> index]
    /\ ntok' = ntok + 1
    /\ UNCHANGED <<ret, lib, result, hist>>

\* An identifier followed by `(` or `!(`: capturing is switched back on, the
\* variable is left unresolved and parse_fn_call (no arguments) follows.
PrimaryCall ==
    /\ AtPrimary({"start", "ident"})
    /\ \E name \in FnNames, capture \in BOOLEAN :
        frames' = Hold(FnCall(name, <<>>, capture), "tail")
    /\ pstates' = SetTop(pstates, [st EXCEPT !.allow_capture = TRUE])
    /\ ntok' = ntok + 1
    /\ ev' = NoEvent
    /\ UNCHANGED <<ret, lib, result, hist>>

\* `{`: a statement block as an expression.
PrimaryBlock ==
    /\ AtPrimary({"start"})
    /\ frames' = Append(SetTop(frames, [top EXCEPT !.pc = "inblock"]),
                        BlockFrame(st, top.s))
    /\ pstates' = SetTop(pstates, BlockEntry(st))
    /\ ntok' = ntok + 1
    /\ ev' = NoEvent
    /\ UNCHANGED <<ret, lib, result, hist>>

PrimaryBlockDone ==
    /\ result = "parsing" /\ ret.kind = "block"
    /\ top.k = "primary" /\ top.pc = "inblock"
    /\ frames' = Hold(StmtExpr, "tail")
    /\ ret' = NoRet
    /\ ev' = NoEvent
    /\ UNCHANGED <<pstates, lib, ntok, result, hist>>

\* `|params|`: a closure, parsed on a new ParseState; its body is one
\* statement.  n1 keeps the number of parameters, n2 the position.
PrimaryAnonFn ==
    /\ AtPrimary({"start"})
    /\ \E params \in FnParams :
        /\ frames' = Append(SetTop(frames, [top EXCEPT !.pc = "inanon"]),
              [Frame("anon", "stmt", FnSettings) EXCEPT
                  !.n1 = Len(params), !.n2 = ntok + 1])
        /\ pstates' = Append(pstates, PushParams(NewParseState, params))
    /\ ntok' = ntok + 1
    /\ ev' = NoEvent
    /\ UNCHANGED <<ret, lib, result, hist>>

\* The closure's externals are looked up in the enclosing ParseState, one
\* access_var call each, at the positions recorded inside.
RECURSIVE AccessAll(_, _)
AccessAll(state, ext) ==
    IF DOMAIN ext = {} THEN state
    ELSE LET n == CHOOSE m \in DOMAIN ext : TRUE
         IN  AccessAll(AccessVar(state, n, ext[n]),
                       [m \in DOMAIN ext \ {n} |-> ext[m]])

\* make_curry_from_externals: the bare pointer, or the curry call wrapped in
\* a statement block with the Share statements.
MakeCurryFromExternals(fn_expr, ext) ==
    IF DOMAIN ext = {} THEN fn_expr ELSE StmtExpr

AnonName(pos) == "anon$" \o ToString(pos)

\* parse_anon_fn returned.
AnonDone ==
    /\ result = "parsing" /\ ret.kind \in {"stmt", "block"}
    /\ top.k = "anon"
    /\ LET outer == pstates[Len(pstates) - 1]
           ext == st.externals
           name == AnonName(top.n2)
       IN  /\ pstates' = SetTop(Pop(pstates), AccessAll(outer, ext))
           /\ lib' = LibInsert(lib, name, Cardinality(DOMAIN ext) + top.n1,
                               "fn", "parse_primary", FALSE)
           /\ ret' = RetExpr(MakeCurryFromExternals(FnPointer(name), ext))
           /\ ev' = [t |-> "Closure", externals |-> DOMAIN ext]
    /\ frames' = Pop(frames)
    /\ UNCHANGED <<ntok, result, hist>>

PrimaryAnonDone ==
    /\ result = "parsing" /\ ret.kind = "expr"
    /\ top.k = "primary" /\ top.pc = "inanon"
    /\ frames' = Hold(ret.e, "tail")
    /\ ret' = NoRet
    /\ ev' = NoEvent
    /\ UNCHANGED <<pstates, lib, ntok, result, hist>>

\* ------------------------------------------------------ the postfix chain
\* Expr::is_valid_postfix: `(`, `!` and `::` follow a variable only (they
\* are taken with the identifier above); `[` and `.` may follow.
IsValidPostfix(e, token) ==
    IF token \in {"(", "!", "::"} THEN e.t = "Variable" ELSE token \in {"[", "."}

\* `.` with an identifier next: capturing is switched off for it and the
\* right side is a parse_primary of its own.
TailDot ==
    /\ AtPrimary({"tail", "tail2"})
    /\ IsValidPostfix(top.x, ".")
    /\ frames' = Append(SetTop(frames, [top EXCEPT !.pc = "dot"]),
                        Frame("primary", "ident", top.s))
    /\ pstates' = SetTop(pstates, [st EXCEPT !.allow_capture = FALSE])
    /\ ev' = NoEvent
    /\ UNCHANGED <<ret, lib, ntok, result, hist>>

\* make_dot_expr on the two sides.  The right side's own chain has taken
\* every postfix token, so the loop ends here.
DotDone ==
    /\ result = "parsing" /\ ret.kind = "expr"
    /\ top.k = "primary" /\ top.pc = "dot"
    /\ LET d == MakeDotExpr(top.x, ret.e)
       IN  IF d.ok
           THEN /\ frames' = Pop(frames)
                /\ ret' = RetExpr(d.e)
                /\ ev' = [t |-> "Dot", lhs |-> top.x, rhs |-> ret.e, e |-> d.e]
                /\ UNCHANGED <<result, pstates, lib, ntok, hist>>
           ELSE Fail(d.err)

\* `[`: parse_index_chain with the expression so far on the left.
TailIndex ==
    /\ AtPrimary({"tail"})
    /\ IsValidPostfix(top.x, "[")
    /\ frames' = Append(Append(SetTop(frames, [top EXCEPT !.pc = "index"]),
                               [Frame("index", "idx", top.s) EXCEPT !.x = top.x]),
                        Frame("expr", "start", top.s))
    /\ ev' = NoEvent
    /\ UNCHANGED <<pstates, ret, lib, ntok, result, hist>>

\* parse_index_chain, `]` and then `[`: the chain binds to the right, the
\* index just parsed is the left side of the next level.
IndexMore ==
    /\ result = "parsing" /\ ret.kind = "expr"
    /\ top.k = "index" /\ top.pc = "idx"
    /\ More
    /\ frames' = Append(Append(SetTop(frames, [top EXCEPT !.pc = "chain"]),
                               [Frame("index", "idx", top.s) EXCEPT !.x = ret.e]),
                        Frame("expr", "start", top.s))
    /\ ret' = NoRet
    /\ ev' = NoEvent
    /\ UNCHANGED <<pstates, lib, ntok, result, hist>>

\* parse_index_chain returns Index(lhs, idx).
IndexDone ==
    /\ result = "parsing" /\ ret.kind = "expr"
    /\ top.k = "index"
    /\ frames' = Pop(frames)
    /\ ret' = RetExpr(Index(top.x, ret.e))
    /\ ev' = NoEvent
    /\ UNCHANGED <<pstates, lib, ntok, result, hist>>

\* Back in the postfix loop: the chain has taken every `[`.
PrimaryIndexDone ==
    /\ result = "parsing" /\ ret.kind = "expr"
    /\ top.k = "primary" /\ top.pc = "index"
    /\ frames' = Hold(ret.e, "tail2")
    /\ ret' = NoRet
    /\ ev' = NoEvent
    /\ UNCHANGED <<pstates, lib, ntok, result, hist>>

\* The next token is no postfix: parse_primary returns.
PrimaryEnd ==
    /\ Running
    /\ top.k = "primary" /\ top.pc \in {"tail", "tail2"}
    /\ frames' = Pop(frames)
    /\ ret' = RetExpr(top.x)
    /\ ev' = NoEvent
    /\ UNCHANGED <<pstates, lib, ntok, result, hist>>

\* ------------------------------------------------------------------- Next
Next ==
    \/ StmtBlock \/ OpenBody \/ BodyMissing \/ CloseBlock \/ StmtDone \/ GlobalEOF
    \/ StmtLet \/ StmtLetInit \/ LetDone
    \/ StmtImport \/ ImportAs \/ ImportPlain
    \/ StmtLoop \/ StmtWhile \/ WhileGuardDone \/ StmtDo \/ DoGuard
    \/ StmtFor \/ ForBind \/ StmtTry \/ TryCatch \/ LoopDone
    \/ StmtBreak \/ StmtBreakOutside
    \/ StmtFn \/ StmtFnWrong \/ FnDone
    \/ StmtExprStart \/ ExprStmtDone \/ AssignOp \/ AssignDone
    \/ ExprCustom \/ ExprStart \/ ExprBinOp \/ ExprFold \/ ExprEnd
    \/ PrimaryLiteral \/ PrimaryIdent \/ PrimaryCall
    \/ PrimaryBlock \/ PrimaryBlockDone
    \/ PrimaryAnonFn \/ AnonDone \/ PrimaryAnonDone
    \/ TailDot \/ DotDone \/ TailIndex \/ IndexMore \/ IndexDone
    \/ PrimaryIndexDone \/ PrimaryEnd

Spec == Init /\ [][Next]_vars

\* ------------------------------------------------------------- properties
TopState == pstates[1]

C2_BlockRestores ==
    (result = "parsing" /\ ev.t = "BlockExit") =>
        /\ st.stack = ev.g.stack
        /\ st.modules = ev.g.modules
        /\ st.entry_stack_len = ev.g.entry_stack_len

\* C3: a Variable created with a resolved index k names the entry at
\* len - k of the scope stack, which is the topmost entry of that name and
\* has no barrier above it.
C3_ResolvedIndex ==
    (result = "parsing" /\ ev.t = "Variable" /\ ev.index > 0) =>
        LET s == st.stack
            i == Len(s) - ev.index + 1
        IN  /\ i >= 1
            /\ s[i].name = ev.name
            /\ \A j \in (i + 1)..Len(s) : s[j].name \notin {ev.name, ""}

\* A variable resolved to the inner one of two bindings of its name.
C3_Witness ==
    /\ result = "parsing" /\ ev.t = "Variable" /\ ev.index > 0
    /\ \E j \in 1..(Len(st.stack) - ev.index) : st.stack[j].name = ev.name

NeverHadBarrier(state) == ~state.barrier

\* C4: in a ParseState on whose stack no barrier was ever put, externals
\* holds a name exactly when an access_var for it returned unresolved while
\* allow_capture was true, with the position of the first such call; and in
\* any ParseState an entry of externals is never removed or changed.
C4_ExternalsAreMisses ==
    /\ [](\A i \in 1..Len(pstates) :
            NeverHadBarrier(pstates[i]) => pstates[i].externals = pstates[i].miss)
    /\ [][\A i \in 1..Min({Len(pstates), Len(pstates')}) :
            \A n \in DOMAIN pstates[i].externals :
                /\ n \in DOMAIN pstates'[i].externals
                /\ pstates'[i].externals[n] = pstates[i].externals[n]]_vars

\* A name is looked up again, unresolved, after it was captured: the entry
\* keeps the earlier position.
C4_Witness ==
    /\ result = "parsing" /\ ev.t = "Variable" /\ ev.index = 0
    /\ NeverHadBarrier(st)
    /\ ev.name \in DOMAIN st.externals
    /\ st.externals[ev.name] < ntok

\* The variable an assignment writes to: the left side itself, or the base
\* of an Index/Dot chain.
AssignBase(lhs) ==
    IF lhs.t = "Variable" THEN lhs
    ELSE IF lhs.t \in {"Index", "Dot"} /\ lhs.lhs.t = "Variable"
              /\ CheckLvalue(lhs.rhs, lhs.t = "Dot")
         THEN lhs.lhs
         ELSE NoExpr

\* C9 (as stated): an assignment to a variable, or to an Index/Dot chain on
\* a variable, that was resolved to a ReadOnly slot fails with
\* AssignmentToConstant and one resolved to a ReadWrite slot is accepted; the
\* mode is that of the slot the variable had when it was created, also after
\* the right-hand side is parsed.
C9_AssignmentChecksResolvedSlot ==
    (ev.t = "Assign" /\ AssignBase(ev.lhs).t = "Variable"
        /\ AssignBase(ev.lhs).index > 0) =>
        /\ AssignBase(ev.lhs).slot = RO => ev.out = "AssignmentToConstant"
        /\ AssignBase(ev.lhs).slot = RW => ev.out = "ok"

\* C10 (as stated): a function declared by `fn` or `private fn` is in the
\* library only if its statement stood at global level.
C10_FnOnlyAtGlobalLevel ==
    \A f \in lib : f.by = "parse_stmt" => f.glob

\* The call stack fs stands inside the body of a while/loop/do/for with no
\* function or closure boundary between the loop and the top of the stack.
InLoopBody(fs) ==
    \E i \in 1..Len(fs) :
        /\ fs[i].k \in {"while", "do", "for"}
        /\ fs[i].pc = "inbody"
        /\ \A j \in (i + 1)..Len(fs) : fs[j].k \notin {"fn", "anon"}

\* C11: a Break/Continue statement is emitted only inside the body of an
\* enclosing while/loop/do/for of the same function or closure; wherever a
\* statement is parsed outside such a body is_breakable is false, and a
\* `break` or `continue` met there fails with LoopBreak.
C11_BreakOnlyInLoopBody ==
    /\ [](ev.t = "Break" => InLoopBody(frames))
    /\ [](\A i \in 1..Len(frames) :
            (frames[i].k \in {"global", "block", "anon"} /\ frames[i].s.is_breakable)
                => InLoopBody(SubSeq(frames, 1, i)))
    /\ [][((StmtBreak \/ StmtBreakOutside) /\ ~InLoopBody(frames))
            => result' = "LoopBreak"]_vars

\* A break accepted in a loop that stands in a function body.
C11_Witness ==
    /\ ev.t = "Break"
    /\ \E i \in 1..Len(frames) : frames[i].k = "fn"

\* C18 (as stated): when access_var meets a barrier before it finds the
\* name, it returns unresolved and externals stays as it was, whatever
\* allow_capture is and whether or not the name stands below the barrier.
C18_BarrierStopsCapture ==
    [][(ev'.t = "Variable" /\ Len(pstates') = Len(pstates)
            /\ SawBarrier(st.stack, ev'.name))
        => (ev'.index = 0 /\ pstates'[Len(pstates)].externals = st.externals)]_vars

StateOf(i) ==
    pstates[1 + Cardinality({j \in 1..i : frames[j].k \in {"fn", "anon"}})]

\* C26 (as stated): the step that starts a let/const with initializer or a
\* for statement leaves the stack alone; the binding is pushed, with the
\* mode of its keyword, by the step that takes the parsed initializer or
\* iteration expression; while the body of a for statement is parsed, the
\* loop variable's entry is on the stack where it was pushed, ReadWrite;
\* and when the for statement ends the stack is cut back to below it.
C26_BindingAfterInitializer ==
    /\ [][(Len(frames') = Len(frames) + 2
              /\ frames'[Len(frames) + 1].k \in {"let", "for"}) =>
            pstates' = pstates]_vars
    /\ [][(result = "parsing" /\ top.k = "let" /\ result' = "parsing"
              /\ Len(frames') = Len(frames) - 1) =>
            /\ ret.kind = "expr"
            /\ pstates' = SetTop(pstates,
                  [st EXCEPT !.stack =
                      Append(@, [name |-> top.nm, mode |-> top.md])])]_vars
    /\ [][(result = "parsing" /\ top.k = "for" /\ top.pc = "iter"
              /\ result' = "parsing" /\ Len(frames') = Len(frames)) =>
            /\ ret.kind = "expr"
            /\ pstates' = SetTop(pstates,
                  [st EXCEPT !.stack =
                      Append(@, [name |-> top.nm, mode |-> RW])])]_vars
    /\ [](\A i \in 1..Len(frames) :
            (frames[i].k = "for" /\ frames[i].pc # "iter") =>
                /\ Len(StateOf(i).stack) > frames[i].n1
                /\ StateOf(i).stack[frames[i].n1 + 1]
                      = [name |-> frames[i].nm, mode |-> RW])
    /\ [][(result = "parsing" /\ top.k = "for" /\ result' = "parsing"
              /\ Len(frames') = Len(frames) - 1) =>
            Len(pstates'[Len(pstates')].stack) <= top.n1]_vars

\* =================================================== the depth limit (C5)
\* SpecDepth follows only the nesting level: `frames` is the call stack of
\* productions, each with the level it was given (`entered`), the level its
\* settings hold now, and the limit of its ParseState.  Which production
\* calls which, and whether it hands down settings or settings.level_up(),
\* is read off the calls in the source.

\* Engine::max_expr_depth and Engine::max_function_expr_depth of the model.
MaxExprDepth == 5
MaxFunctionExprDepth == 4
\* Longest call stack followed.
MaxFrames == 10

\* ParseSettings::ensure_level_within_max_limit, with `>=` for `>`.
EnsureLevelOffByOne(level, limit) == limit = 0 \/ ~(level >= limit)

\* ParseSettings::ensure_level_within_max_limit: TRUE when it returns Ok.
EnsureLevel(level, limit) == limit = 0 \/ ~(level > limit)

\* The calls of each production: <<callee, 1>> for settings.level_up(),
\* <<callee, 0>> for settings handed down as they are.
Calls(k) ==
    CASE k = "global" -> {<<"stmt", 0>>}
      [] k = "stmt" -> {<<"block", 1>>, <<"if", 1>>, <<"switch", 1>>, <<"while", 1>>,
                        <<"do", 1>>, <<"for", 1>>, <<"try", 1>>, <<"let", 1>>,
                        <<"import", 1>>, <<"export", 1>>, <<"expr_stmt", 1>>,
                        <<"expr", 1>>}
      [] k = "block" -> {<<"stmt", 1>>}
      [] k = "expr_stmt" -> {<<"expr", 1>>, <<"op_assignment", 1>>}
      [] k = "op_assignment" -> {<<"expr", 1>>}
      [] k = "expr" -> {<<"custom", 0>>, <<"unary", 1>>, <<"binary_op", 1>>}
      [] k = "custom" -> {<<"expr", 1>>, <<"block", 1>>}
      [] k = "unary" -> {<<"unary", 1>>, <<"primary", 1>>}
      [] k = "primary" -> {<<"block", 1>>, <<"paren", 1>>, <<"if", 1>>, <<"switch", 1>>,
                           <<"array", 1>>, <<"map", 1>>, <<"fn_call", 1>>,
                           <<"index_chain", 1>>, <<"primary", 1>>}
      [] k = "binary_op" -> {<<"unary", 0>>, <<"binary_op", 0>>}
      [] k = "paren" -> {<<"expr", 1>>}
      [] k = "fn_call" -> {<<"expr", 1>>}
      [] k = "index_chain" -> {<<"expr", 1>>, <<"index_chain", 1>>}
      [] k = "array" -> {<<"expr", 1>>}
      [] k = "map" -> {<<"expr", 1>>}
      [] k = "switch" -> {<<"expr", 1>>, <<"stmt", 1>>}
      [] k = "if" -> {<<"expr", 1>>, <<"block", 1>>, <<"if", 1>>}
      [] k = "while" -> {<<"expr", 1>>, <<"block", 1>>}
      [] k = "do" -> {<<"block", 1>>, <<"expr", 1>>}
      [] k = "for" -> {<<"expr", 1>>, <<"block", 1>>}
      [] k = "try" -> {<<"block", 1>>}
      [] k = "let" -> {<<"expr", 1>>}
      [] k = "import" -> {<<"expr", 1>>}
      [] k = "export" -> {<<"let", 0>>}
      [] k = "fn" -> {<<"block", 1>>}
      [] k = "anon_fn" -> {<<"stmt", 1>>}

\* The calls that start a new ParseState and settings with level 0:
\* parse_fn from parse_stmt, parse_anon_fn from parse_primary.
FreshCalls(k) ==
    CASE k = "stmt" -> {"fn"}
      [] k = "primary" -> {"anon_fn"}
      [] OTHER -> {}

\* Productions that do not start with the level check: parse_custom_syntax
\* has none, parse_block makes it after its `{`, parse_stmt after it has
\* returned Noop at the end of input.
ChecksAtEntry(k) == k \notin {"global", "custom"}

DFrame(k, level, limit) ==
    [k |-> k, pc |-> "entry", level |-> level, entered |-> level, limit |-> limit]

DRunning == result = "parsing" /\ frames # <<>>

DEvent(t, f) ==
    [t |-> t, k |-> f.k, level |-> f.level, entered |-> f.entered, limit |-> f.limit]

InitDepth ==
    /\ frames = <<[DFrame("global", 0, MaxExprDepth) EXCEPT !.pc = "body"]>>
    /\ pstates = <<>>
    /\ ret = NoRet
    /\ lib = {}
    /\ ntok = 0
    /\ result = "parsing"
    /\ ev = NoEvent
    /\ hist = [lets |-> <<>>, imports |-> <<>>, delta |-> FALSE]

DStop(err, e) ==
    /\ result' = err
    /\ frames' = <<>>
    /\ ev' = e
    /\ UNCHANGED <<pstates, ret, lib, ntok, hist>>

\* The level check a production starts with.
DEnter ==
    /\ DRunning /\ top.pc = "entry"
    /\ IF ChecksAtEntry(top.k) /\ ~EnsureLevel(top.level, top.limit)
       THEN DStop("ExprTooDeep", DEvent("TooDeep", top))
       ELSE /\ frames' = SetTop(frames, [top EXCEPT !.pc = "body"])
            /\ ev' = NoEvent
            /\ UNCHANGED <<pstates, ret, lib, ntok, result, hist>>

\* parse_stmt at the end of input: Noop, before the check.
DStmtAtEOF ==
    /\ DRunning /\ top.pc = "entry" /\ top.k = "stmt"
    /\ frames' = Pop(frames)
    /\ ev' = DEvent("Returned", top)
    /\ UNCHANGED <<pstates, ret, lib, ntok, result, hist>>

\* parse_block when the next token is not `{`: MissingToken, before the
\* check.
DBlockNoBrace ==
    /\ DRunning /\ top.pc = "entry" /\ top.k = "block"
    /\ DStop("MissingToken", DEvent("Failed", top))

\* A call with settings or settings.level_up().
DCall ==
    /\ DRunning /\ top.pc = "body"
    /\ Len(frames) < MaxFrames
    /\ \E c \in Calls(top.k) :
        frames' = Append(frames, DFrame(c[1], top.level + c[2], top.limit))
    /\ ev' = NoEvent
    /\ UNCHANGED <<pstates, ret, lib, ntok, result, hist>>

\* A function or closure: level 0 again, under max_function_expr_depth.
DCallFresh ==
    /\ DRunning /\ top.pc = "body"
    /\ Len(frames) < MaxFrames
    /\ \E c \in FreshCalls(top.k) :
        frames' = Append(frames, DFrame(c, 0, MaxFunctionExprDepth))
    /\ ev' = NoEvent
    /\ UNCHANGED <<pstates, ret, lib, ntok, result, hist>>

\* parse_binary_op has folded one operator: it raises its own level and
\* checks again.
DFold ==
    /\ DRunning /\ top.pc = "body" /\ top.k = "binary_op"
    /\ LET f == [top EXCEPT !.level = top.level + 1]
       IN  IF ~EnsureLevel(f.level, f.limit)
           THEN DStop("ExprTooDeep", DEvent("TooDeep", f))
           ELSE /\ frames' = SetTop(frames, f)
                /\ ev' = NoEvent
                /\ UNCHANGED <<pstates, ret, lib, ntok, result, hist>>

\* The production returns Ok.
DReturn ==
    /\ DRunning /\ top.pc = "body"
    /\ Len(frames) > 1
    /\ frames' = Pop(frames)
    /\ ev' = DEvent("Returned", top)
    /\ UNCHANGED <<pstates, ret, lib, ntok, result, hist>>

\* parse_global_level at the end of input.
DGlobalEOF ==
    /\ DRunning /\ Len(frames) = 1
    /\ result' = "ok"
    /\ ev' = NoEvent
    /\ UNCHANGED <<pstates, frames, ret, lib, ntok, hist>>

NextDepth ==
    \/ DEnter \/ DStmtAtEOF \/ DBlockNoBrace \/ DCall \/ DCallFresh
    \/ DFold \/ DReturn \/ DGlobalEOF

SpecDepth == InitDepth /\ [][NextDepth]_vars

MaxLiteralSize == 2
MaxItems == 4
\* Property names of a map literal.
LitKeys == {"p", "q", "r"}

\* The size test of both literal loops (lines 641 and 766).
LiteralFull(len, max) == max > 0 /\ len >= max

\* The frame of parse_array_literal / parse_map_literal: the items so far,
\* the limit, and `closing`: the separator match has seen the closing
\* bracket, which is therefore the next token.
LitFrame(k, max) ==
    [k |-> k, pc |-> "item", items |-> <<>>, max |-> max, closing |-> FALSE, key |-> ""]

LitRunning(k, pc) ==
    /\ result = "parsing" /\ frames # <<>>
    /\ top.k = k /\ top.pc = pc

LitEvent(t) ==
    [t |-> t, k |-> top.k, len |-> Len(top.items), max |-> top.max,
     closing |-> top.closing]

InitLit ==
    /\ \E k \in {"array", "map"}, max \in 0..MaxLiteralSize :
          frames = <<LitFrame(k, max)>>
    /\ pstates = <<>>
    /\ ret = NoRet
    /\ lib = {}
    /\ ntok = 0
    /\ result = "parsing"
    /\ ev = NoEvent
    /\ hist = [lets |-> <<>>, imports |-> <<>>, delta |-> FALSE]

LitStop(err, e) ==
    /\ result' = err
    /\ frames' = <<>>
    /\ ev' = e
    /\ UNCHANGED <<pstates, ret, lib, ntok, hist>>

LitStep(f) ==
    /\ frames' = <<f>>
    /\ ev' = NoEvent
    /\ UNCHANGED <<pstates, ret, lib, ntok, result, hist>>

\* parse_array_literal, top of the loop and `]`: the size test comes first.
ArrayClose ==
    /\ LitRunning("array", "item")
    /\ IF LiteralFull(Len(top.items), top.max)
       THEN LitStop("LiteralTooLarge", LitEvent("TooLarge"))
       ELSE LitStop("ok", LitEvent("Literal"))

\* parse_array_literal, top of the loop and an item.
ArrayItem ==
    /\ LitRunning("array", "item")
    /\ ~top.closing
    /\ Len(top.items) < MaxItems
    /\ IF LiteralFull(Len(top.items), top.max)
       THEN LitStop("LiteralTooLarge", LitEvent("TooLarge"))
       ELSE LitStep([top EXCEPT !.items = Append(top.items, "item"), !.pc = "sep"])

\* parse_array_literal after an item: `,` is taken, `]` is left in place.
ArraySep ==
    /\ LitRunning("array", "sep")
    /\ \E closing \in BOOLEAN :
          LitStep([top EXCEPT !.pc = "item", !.closing = closing])

\* Anything else after an item, or the input ends.
ArrayMissing ==
    /\ LitRunning("array", "sep")
    /\ LitStop("MissingToken", LitEvent("Failed"))

\* parse_map_literal, top of the loop and `}`.
MapClose ==
    /\ LitRunning("map", "item")
    /\ LitStop("ok", LitEvent("Literal"))

\* parse_map_literal, a property name, which must be new.
MapKey ==
    /\ LitRunning("map", "item")
    /\ ~top.closing
    /\ Len(top.items) < MaxItems
    /\ \E key \in LitKeys :
          IF \E i \in 1..Len(top.items) : top.items[i] = key
          THEN LitStop("DuplicatedProperty", LitEvent("Failed"))
          ELSE LitStep([top EXCEPT !.key = key, !.pc = "colon"])

\* parse_map_literal after `:`: the size test, then the value.
MapValue ==
    /\ LitRunning("map", "colon")
    /\ IF LiteralFull(Len(top.items), top.max)
       THEN LitStop("LiteralTooLarge", LitEvent("TooLarge"))
       ELSE LitStep([top EXCEPT !.items = Append(top.items, top.key),
                                !.key = "", !.pc = "sep"])

\* parse_map_literal after a value: `,` is taken, `}` is left in place.
MapSep ==
    /\ LitRunning("map", "sep")
    /\ \E closing \in BOOLEAN :
          LitStep([top EXCEPT !.pc = "item", !.closing = closing])

\* A token that cannot follow, or the input ends.
MapMissing ==
    /\ LitRunning("map", "colon") \/ LitRunning("map", "sep")
    /\ LitStop("MissingToken", LitEvent("Failed"))

NextLit ==
    \/ ArrayClose \/ ArrayItem \/ ArraySep \/ ArrayMissing
    \/ MapClose \/ MapKey \/ MapValue \/ MapSep \/ MapMissing

SpecLit == InitLit /\ [][NextLit]_vars

\* C6 (as stated): under a non-zero limit N a literal of exactly N items is
\* accepted, and one with N + 1 items is rejected with LiteralTooLarge(N).
C6_ExactlyMaxAccepted ==
    /\ (ev.t = "TooLarge" /\ ev.closing) => ev.len # ev.max
    /\ (ev.t = "Literal" /\ ev.max > 0) => ev.len <= ev.max


\* ================================================ the switch table (C7, C8)
\* SpecSwitch reads the arms of one switch block, one arm per step: the
\* pattern (`_`, a constant, or an expression that is no constant), `=>`,
\* the arm's statement and its separator.  A statement is known by the
\* number of its arm.

\* Most arms read.
MaxArms == 4
\* Constants an arm may match, and what the hasher makes of them: two
\* different constants may share a hash.
SwitchValues == {1, 2, 3}
HashBuckets == 2
HashOf(v) == v % HashBuckets

NoStmt == 0
NoTable == [h \in {} |-> NoStmt]

\* A plausible slip: the table is not consulted before the insert.
KeyTakenNever(table, hash) == FALSE

\* table.contains_key(&hash), line 862.
KeyTaken(table, hash) == hash \in DOMAIN table

\* table.insert(hash, stmt).
TableInsert(table, hash, stmt) ==
    [h \in DOMAIN table \cup {hash} |-> IF h = hash THEN stmt ELSE table[h]]

SwRunning ==
    /\ result = "parsing" /\ frames # <<>>
    /\ top.k = "switch"

SwEvent(t, pat) ==
    [t |-> t, pat |-> pat, table |-> top.table, def_stmt |-> top.def_stmt]

InitSwitch ==
    /\ frames = <<[k |-> "switch", table |-> NoTable, def_stmt |-> NoStmt]>>
    /\ pstates = <<>>
    /\ ret = NoRet
    /\ lib = {}
    /\ ntok = 0
    /\ result = "parsing"
    /\ ev = NoEvent
    /\ hist = <<>>

SwStop(err, e) ==
    /\ result' = err
    /\ frames' = <<>>
    /\ ev' = e
    /\ UNCHANGED <<pstates, ret, lib, ntok, hist>>

\* An arm is complete: hist keeps the arms read, in order.
SwArm(pat, table, def_stmt) ==
    /\ frames' = <<[top EXCEPT !.table = table, !.def_stmt = def_stmt]>>
    /\ hist' = Append(hist, pat)
    /\ ev' = SwEvent("Arm", pat)
    /\ UNCHANGED <<pstates, ret, lib, ntok, result>>

\* `_ => stmt`: taken while def_stmt is None.
SwitchDefault ==
    /\ SwRunning /\ Len(hist) < MaxArms
    /\ IF top.def_stmt = NoStmt
       THEN SwArm([default |-> TRUE], top.table, Len(hist) + 1)
       ELSE SwStop("DuplicatedSwitchCase", SwEvent("Failed", [default |-> TRUE]))

\* `constant => stmt`: the hash must be new; the insert is followed by
\* def_stmt = None.
SwitchCase ==
    /\ SwRunning /\ Len(hist) < MaxArms
    /\ \E v \in SwitchValues :
        LET pat == [default |-> FALSE, value |-> v]
        IN  IF KeyTaken(top.table, HashOf(v))
            THEN SwStop("DuplicatedSwitchCase", SwEvent("Failed", pat))
            ELSE SwArm(pat, TableInsert(top.table, HashOf(v), Len(hist) + 1), NoStmt)

\* A pattern that is no constant.
SwitchNotConstant ==
    /\ SwRunning /\ Len(hist) < MaxArms
    /\ SwStop("ExprExpected", SwEvent("Failed", [default |-> FALSE]))

\* `}`: Stmt::Switch with the table and def_stmt.
SwitchClose ==
    /\ SwRunning
    /\ SwStop("ok", SwEvent("Switch", [default |-> FALSE]))

NextSwitch == SwitchDefault \/ SwitchCase \/ SwitchNotConstant \/ SwitchClose

SpecSwitch == InitSwitch /\ [][NextSwitch]_vars

CaseArms == {i \in 1..Len(hist) : ~hist[i].default}
DefaultArms == {i \in 1..Len(hist) : hist[i].default}

\* C7: the table of a parsed switch has exactly one entry per arm that is
\* not the default, under the hash of the arm's constant and holding the
\* arm's statement; an arm whose hash is already in the table fails with
\* DuplicatedSwitchCase, one whose pattern is no constant with ExprExpected.
C7_TableMatchesArms ==
    /\ (result = "ok" /\ ev.t = "Switch") =>
          /\ DOMAIN ev.table = {HashOf(hist[i].value) : i \in CaseArms}
          /\ Cardinality(DOMAIN ev.table) = Cardinality(CaseArms)
          /\ \A i \in CaseArms : ev.table[HashOf(hist[i].value)] = i
    /\ (ev.t = "Failed" /\ ~ev.pat.default) =>
          IF "value" \in DOMAIN ev.pat
          THEN /\ HashOf(ev.pat.value) \in DOMAIN ev.table
               /\ result = "DuplicatedSwitchCase"
          ELSE result = "ExprExpected"
    /\ \A i \in CaseArms, j \in CaseArms :
          HashOf(hist[i].value) = HashOf(hist[j].value) => i = j

\* A switch of several constant arms and a default is parsed.
C7_Witness ==
    /\ result = "ok" /\ ev.t = "Switch"
    /\ Cardinality(CaseArms) >= 2
    /\ DefaultArms # {}

\* C8 (as stated): a switch block with two or more `_` arms is rejected.
C8_OneDefaultAtMost ==
    result = "ok" => Cardinality(DefaultArms) <= 1

\* C28 (as stated): the default statement of a parsed switch that has a `_`
\* arm is the statement of a `_` arm, whether case arms follow it or not.
C28_DefaultArmIsDefault ==
    (result = "ok" /\ ev.t = "Switch" /\ DefaultArms # {})
        => ev.def_stmt \in DefaultArms

\* ============================================ binary operators (C12)
\* SpecBinOp runs parse_binary_op, as parse_expr calls it, over an expression
\* of operands joined by binary operators.  hist is the sequence of
\* operators; operand number i stands left of operator i + 1; ntok counts the
\* operators consumed, so parse_unary returns operand number ntok.

\* Most operators in an expression.
MaxOperators == 3

\* Engine::custom_keywords: the registered custom operators with their
\* precedence (a NonZeroU8).
CustomKeywords == [c \in {"lo"} |-> 1]

\* Token::precedence and Token::is_bind_right of the built-in operators.
TokenPrecedence(op) ==
    CASE op = "+" -> 150
      [] op = "*" -> 180
      [] op = "**" -> 190
      [] OTHER -> 0
IsBindRight(op) == op = "**"

BinOps == {"+", "*", "**"} \cup DOMAIN CustomKeywords

\* The `precedence` match of parse_binary_op, lines 1731-1750.
Precedence(op) ==
    IF op \in DOMAIN CustomKeywords THEN CustomKeywords[op] ELSE TokenPrecedence(op)

Operand(i) == [t |-> "Operand", i |-> i]

\* The token input.peek() gives: the next operator, or EOF.
PeekOp(n) == IF n < Len(hist) THEN hist[n + 1] ELSE "EOF"

\* Line 1756: the loop hands `root` back to its caller.
BindsToParent(precedence, parent_precedence, bind_right) ==
    precedence < parent_precedence
        \/ (precedence = parent_precedence /\ ~bind_right)

\* Line 1788: the right operand takes the operators that follow.
BindsToRight(precedence, next_precedence, bind_right) ==
    (precedence = next_precedence /\ bind_right) \/ precedence < next_precedence

BinFrame(parent_precedence, lhs) ==
    [k |-> "binary_op", pc |-> "loop", parent |-> parent_precedence,
     root |-> lhs, op |-> ""]

BinRunning == result = "parsing" /\ frames # <<>> /\ top.k = "binary_op"

\* parse_expr: parse_unary, then parse_binary_op with parent precedence 1.
InitBinOp ==
    /\ hist \in UNION {[1..n -> BinOps] : n \in 0..MaxOperators}
    /\ frames = <<BinFrame(1, Operand(0))>>
    /\ pstates = <<>>
    /\ ret = NoRet
    /\ lib = {}
    /\ ntok = 0
    /\ result = "parsing"
    /\ ev = NoEvent

\* The loop returns root; the outermost call returns to parse_expr.
BinReturn ==
    /\ BinRunning /\ ret = NoRet /\ top.pc = "loop"
    /\ BindsToParent(Precedence(PeekOp(ntok)), top.parent, IsBindRight(PeekOp(ntok)))
    /\ frames' = Pop(frames)
    /\ ret' = RetExpr(top.root)
    /\ result' = IF Len(frames) = 1 THEN "ok" ELSE result
    /\ ev' = [t |-> "Return"]
    /\ UNCHANGED <<pstates, lib, ntok, hist>>

\* The operator is consumed, its right operand is the next unary and
\* nothing more: the call is built and the loop goes on.
BinFold ==
    /\ BinRunning /\ ret = NoRet /\ top.pc = "loop"
    /\ ~BindsToParent(Precedence(PeekOp(ntok)), top.parent, IsBindRight(PeekOp(ntok)))
    /\ ~BindsToRight(Precedence(PeekOp(ntok)), Precedence(PeekOp(ntok + 1)),
                     IsBindRight(PeekOp(ntok)))
    /\ frames' = SetTop(frames,
          [top EXCEPT !.root = FnCall(PeekOp(ntok), <<top.root, Operand(ntok + 1)>>, FALSE)])
    /\ ntok' = ntok + 1
    /\ ev' = [t |-> "Fold"]
    /\ UNCHANGED <<pstates, ret, lib, result, hist>>

\* The operator is consumed and the operators after its right operand bind
\* tighter: parse_binary_op is called with this operator's precedence.
BinDescend ==
    /\ BinRunning /\ ret = NoRet /\ top.pc = "loop"
    /\ ~BindsToParent(Precedence(PeekOp(ntok)), top.parent, IsBindRight(PeekOp(ntok)))
    /\ BindsToRight(Precedence(PeekOp(ntok)), Precedence(PeekOp(ntok + 1)),
                    IsBindRight(PeekOp(ntok)))
    /\ frames' = Append(SetTop(frames, [top EXCEPT !.pc = "rhs", !.op = PeekOp(ntok)]),
                        BinFrame(Precedence(PeekOp(ntok)), Operand(ntok + 1)))
    /\ ntok' = ntok + 1
    /\ ev' = [t |-> "Descend"]
    /\ UNCHANGED <<pstates, ret, lib, result, hist>>

\* The inner call returned the right operand.
BinRhsDone ==
    /\ BinRunning /\ ret.kind = "expr" /\ top.pc = "rhs"
    /\ frames' = SetTop(frames,
          [top EXCEPT !.root = FnCall(top.op, <<top.root, ret.e>>, FALSE),
                      !.pc = "loop", !.op = ""])
    /\ ret' = NoRet
    /\ ev' = [t |-> "Fold"]
    /\ UNCHANGED <<pstates, lib, ntok, result, hist>>

NextBinOp == BinReturn \/ BinFold \/ BinDescend \/ BinRhsDone

SpecBinOp == InitBinOp /\ [][NextBinOp]_vars

\* The reference grammar: the expression of operands i..j splits at its
\* operator of lowest precedence, the last such one, or the first one when
\* it binds to the right.
LowestOps(i, j) ==
    {m \in (i + 1)..j :
        \A n \in (i + 1)..j : Precedence(hist[m]) <= Precedence(hist[n])}

SplitAt(i, j) ==
    CHOOSE m \in LowestOps(i, j) :
        \A n \in LowestOps(i, j) : IF IsBindRight(hist[m]) THEN m <= n ELSE m >= n

RECURSIVE RefTree(_, _)
RefTree(i, j) ==
    IF i = j THEN Operand(i)
    ELSE FnCall(hist[SplitAt(i, j)],
                <<RefTree(i, SplitAt(i, j) - 1), RefTree(SplitAt(i, j), j)>>, FALSE)

\* C12 (as stated): parse_binary_op started with parent precedence 1 returns
\* the tree the reference grammar gives for the whole sequence of operands
\* and operators.
C12_TreeOfReferenceGrammar ==
    result = "ok" => ret.e = RefTree(0, Len(hist))

\* ================================= postfix chains (C13, C14, C19, C20)
\* SpecPostfix parses one expression statement: a primary with its chain of
\* postfixes (`(` and `!(` calls, `::`, `[...]`, `.`), then the assignment
\* operator, if any.  hist keeps the items of the chain in reading order;
\* index expressions are integer literals, each with its place in the chain
\* as value, and a call has no argument or one variable as argument.

\* Most items in a chain, the first primary included.
MaxChain == 3

\* The keyword functions a script may call.
KeywordFns == {"Fn", "eval"}

\* The tokens parse_op_assignment_stmt looks for ("" stands for any other).
AssignTokens == {"", "=", "+="}

IntLit(v) == [t |-> "IntegerConstant", v |-> v]

\* calc_script_fn_hash(qualifiers, name, num): a function of its inputs.
NamespaceHash(qualifiers, name, num) ==
    [qualifiers |-> qualifiers, name |-> name, num |-> num]

\* The placeholder a qualified variable gets when `::` is consumed
\* (NonZeroU64::new(42)).
DummyHash == [dummy |-> TRUE]

\* module::name, with the hash kept beside the namespace.
QualifiedVariable(module, name) ==
    [t |-> "Variable", index |-> 0, ns |-> TRUE, module |-> module,
     name |-> name, hash |-> DummyHash]

\* parse_fn_call for a variable taken as the function name: the namespace
\* of a qualified name goes into the call.
CallOf(x, args, capture) ==
    IF x.ns
    THEN [t |-> "FnCall", name |-> x.name, args |-> args, capture |-> capture,
          ns |-> TRUE, module |-> x.module]
    ELSE FnCall(x.name, args, capture)

\* The hash of a qualified variable: qualifiers, name, arity 0.
WithHash(x) ==
    IF x.t = "Variable" /\ x.ns
    THEN [x EXCEPT !.hash = NamespaceHash(<<x.module>>, x.name, 0)]
    ELSE x

\* A plausible slip: only a variable that is the whole expression is hashed.
CacheHashRootOnly(e) == WithHash(e)

\* The end of parse_primary (lines 1239-1258): the hash is stored in a
\* qualified variable that is the expression or the left side of the
\* Index or Dot that is the expression.
CacheHash(e) ==
    IF e.t \in {"Index", "Dot"} THEN [e EXCEPT !.lhs = WithHash(e.lhs)]
    ELSE WithHash(e)

\* A plausible slip: the operator text is taken from the token in each case.
OpOfTokenSyntax(token) == token

\* The `op` match of parse_op_assignment_stmt, lines 1473-1488.
OpOfToken(token) == IF token = "=" THEN "" ELSE token

PfAt(k, pcs) ==
    /\ result = "parsing" /\ ret = NoRet /\ frames # <<>>
    /\ top.k = k /\ top.pc \in pcs
PfBack(k, pc) ==
    /\ result = "parsing" /\ ret.kind = "expr" /\ frames # <<>>
    /\ top.k = k /\ top.pc = pc
PfMore == Len(hist) < MaxChain

PfStop(res, e) ==
    /\ result' = res
    /\ frames' = <<>>
    /\ ret' = NoRet
    /\ ev' = e
    /\ UNCHANGED <<lib, ntok>>

\* parse_expr_stmt on a ParseState whose stack holds nothing, a variable or
\* a constant.
InitPostfix ==
    /\ \E stack \in {<<>>, <<[name |-> "a", mode |-> RW]>>, <<[name |-> "a", mode |-> RO]>>} :
        pstates = <<[NewParseState EXCEPT !.stack = stack]>>
    /\ frames = <<Frame("expr_stmt", "lhs", GlobalSettings),
                  Frame("primary", "start", GlobalSettings)>>
    /\ ret = NoRet
    /\ lib = {}
    /\ ntok = 0
    /\ result = "parsing"
    /\ ev = NoEvent
    /\ hist = <<>>

\* parse_primary, Token::Identifier: followed by `(`, `!` or `::` the
\* variable is left unresolved and capturing is switched on; otherwise
\* access_var looks the name up.
PfIdentifier ==
    /\ PfAt("primary", {"start", "ident"}) /\ PfMore
    /\ \E name \in Names, follow \in {"(", "!", "::", ""} :
        /\ hist' = Append(hist, [t |-> "ident", name |-> name, follow |-> follow])
        /\ ev' = [t |-> "Identifier", name |-> name, follow |-> follow]
        /\ IF follow = ""
           THEN /\ pstates' = <<AccessVar(st, name, Len(hist) + 1)>>
                /\ frames' = Hold(Variable(AccessResult(st.stack, name), name,
                                           SlotMode(st.stack, AccessResult(st.stack, name))),
                                  "tail")
           ELSE /\ pstates' = <<[st EXCEPT !.allow_capture = TRUE]>>
                /\ frames' = Hold(Variable(0, name, ""), follow)
    /\ UNCHANGED <<ret, lib, ntok, result>>

\* parse_primary, Token::Reserved: a keyword function followed by `(` or `!`.
PfReserved ==
    /\ PfAt("primary", {"start", "reserved"}) /\ PfMore
    /\ \E name \in KeywordFns, follow \in {"(", "!"} :
        /\ hist' = Append(hist, [t |-> "ident", name |-> name, follow |-> follow])
        /\ ev' = [t |-> "Reserved", name |-> name, follow |-> follow]
        /\ frames' = Hold(Variable(0, name, ""), follow)
    /\ UNCHANGED <<pstates, ret, lib, ntok, result>>

\* The postfix loop, `(` or `!(` after a variable: parse_fn_call.  An
\* argument is an expression of its own; here a variable.
PfCall ==
    /\ PfAt("primary", {"(", "!"})
    /\ \/ /\ frames' = Hold(CallOf(top.x, <<>>, top.pc = "!"), "tail")
          /\ ev' = [t |-> "Call"]
          /\ UNCHANGED pstates
       \/ \E arg \in {"b"} :
          /\ pstates' = <<AccessVar(st, arg, Len(hist) + 1)>>
          /\ frames' = Hold(CallOf(top.x,
                                   <<Variable(AccessResult(st.stack, arg), arg, "")>>,
                                   top.pc = "!"), "tail")
          /\ ev' = [t |-> "Lookup", name |-> arg]
    /\ UNCHANGED <<ret, lib, ntok, result, hist>>

\* The postfix loop, `::` after a variable: the next identifier is the
\* variable, the one before it its namespace.  `(` after it makes a
\* qualified call; `!` after it is an error.
PfNamespace ==
    /\ PfAt("primary", {"::"})
    /\ \E name \in Names, follow \in {"", "(", "!"} :
        IF follow = "!"
        THEN \E err \in {"UnexpectedInput", "ImproperSymbol"} :
                PfStop(err, [t |-> "Failed"])
        ELSE /\ frames' = Hold(QualifiedVariable(top.x.name, name),
                               IF follow = "" THEN "tail" ELSE follow)
             /\ ev' = [t |-> "Namespace", follow |-> follow]
             /\ UNCHANGED <<ret, lib, ntok, result>>
    /\ UNCHANGED <<pstates, hist>>

\* The postfix loop, `.`: capturing is switched off when an identifier is
\* next, and the right side is a parse_primary of its own.
PfDot ==
    /\ PfAt("primary", {"tail", "tail2"}) /\ PfMore
    /\ IsValidPostfix(top.x, ".")
    /\ \E next \in {"ident", "reserved"} :
        /\ frames' = Append(SetTop(frames, [top EXCEPT !.pc = "dot"]),
                            Frame("primary", next, top.s))
        /\ pstates' = IF next = "ident"
                      THEN <<[st EXCEPT !.allow_capture = FALSE]>>
                      ELSE pstates
    /\ ev' = [t |-> "Dot"]
    /\ UNCHANGED <<ret, lib, ntok, result, hist>>

\* make_dot_expr on the two sides; the right side's chain has taken every
\* postfix, so the loop ends and parse_primary returns as in PfEnd.
PfDotDone ==
    /\ PfBack("primary", "dot")
    /\ LET d == MakeDotExpr(top.x, ret.e)
       IN  IF d.ok
           THEN /\ frames' = Pop(frames)
                /\ ret' = RetExpr(CacheHash(d.e))
                /\ ev' = [t |-> "DotExpr"]
                /\ UNCHANGED <<lib, ntok, result>>
           ELSE PfStop(d.err, [t |-> "Failed"])
    /\ UNCHANGED <<pstates, hist>>

\* The postfix loop, `[`: parse_index_chain with the expression so far.
PfIndexOpen ==
    /\ PfAt("primary", {"tail"}) /\ PfMore
    /\ IsValidPostfix(top.x, "[")
    /\ frames' = Append(SetTop(frames, [top EXCEPT !.pc = "index"]),
                        [Frame("index", "idx", top.s) EXCEPT !.x = top.x])
    /\ ev' = [t |-> "Index"]
    /\ UNCHANGED <<pstates, ret, lib, ntok, result, hist>>

\* parse_index_chain: the index expression and `]`; when `[` follows, the
\* index is the left side of the call for the next level.
PfIndexNext ==
    /\ PfAt("index", {"idx"}) /\ Len(hist) + 1 < MaxChain
    /\ frames' = Append(SetTop(frames, [top EXCEPT !.pc = "chain"]),
                        [Frame("index", "idx", top.s) EXCEPT !.x = IntLit(Len(hist) + 1)])
    /\ hist' = Append(hist, [t |-> "index", v |-> Len(hist) + 1])
    /\ ev' = [t |-> "Index"]
    /\ UNCHANGED <<pstates, ret, lib, ntok, result>>

\* parse_index_chain: no `[` follows, Index(lhs, idx_expr) is returned; and
\* the level above returns Index(lhs, what the inner call gave).
PfIndexReturn ==
    /\ \/ /\ PfAt("index", {"idx"}) /\ PfMore
          /\ ret' = RetExpr(Index(top.x, IntLit(Len(hist) + 1)))
          /\ hist' = Append(hist, [t |-> "index", v |-> Len(hist) + 1])
       \/ /\ PfBack("index", "chain")
          /\ ret' = RetExpr(Index(top.x, ret.e))
          /\ UNCHANGED hist
    /\ frames' = Pop(frames)
    /\ ev' = [t |-> "IndexExpr"]
    /\ UNCHANGED <<pstates, lib, ntok, result>>

\* Back in the postfix loop with the chain as the expression so far.
PfIndexDone ==
    /\ PfBack("primary", "index")
    /\ frames' = Hold(ret.e, "tail2")
    /\ ret' = NoRet
    /\ ev' = [t |-> "IndexExpr"]
    /\ UNCHANGED <<pstates, lib, ntok, result, hist>>

\* No postfix follows: parse_primary stores the hash of a qualified variable
\* and returns.
PfEnd ==
    /\ PfAt("primary", {"tail", "tail2"})
    /\ frames' = Pop(frames)
    /\ ret' = RetExpr(CacheHash(top.x))
    /\ ev' = [t |-> "Primary"]
    /\ UNCHANGED <<pstates, lib, ntok, result, hist>>

\* parse_op_assignment_stmt: Stmt::Expr, or the right side (a literal) and
\* make_assignment_stmt.
PfStmt ==
    /\ PfBack("expr_stmt", "lhs")
    /\ \E token \in AssignTokens :
        IF token = ""
        THEN PfStop("ok", [t |-> "Expr", e |-> ret.e])
        ELSE IF MakeAssignmentStmt(st.stack, ret.e) = "ok"
        THEN PfStop("ok", [t |-> "Assignment", e |-> ret.e, token |-> token,
                           op |-> OpOfToken(token), rhs |-> IntLit(42)])
        ELSE PfStop(MakeAssignmentStmt(st.stack, ret.e), [t |-> "Failed"])
    /\ UNCHANGED <<pstates, hist>>

NextPostfix ==
    \/ PfIdentifier \/ PfReserved \/ PfCall \/ PfNamespace
    \/ PfDot \/ PfDotDone
    \/ PfIndexOpen \/ PfIndexNext \/ PfIndexReturn \/ PfIndexDone
    \/ PfEnd \/ PfStmt

SpecPostfix == InitPostfix /\ [][NextPostfix]_vars

\* The leaves of a Dot/Index tree, left to right.
RECURSIVE Leaves(_)
Leaves(e) ==
    IF e.t \in {"Dot", "Index"} THEN Leaves(e.lhs) \o Leaves(e.rhs) ELSE <<e>>

\* Every Dot and Index node has a leaf on its left.
RECURSIVE RightSpine(_)
RightSpine(e) ==
    IF e.t \in {"Dot", "Index"}
    THEN e.lhs.t \notin {"Dot", "Index"} /\ RightSpine(e.rhs)
    ELSE TRUE

RECURSIVE RightNest(_)
RightNest(items) ==
    IF Len(items) = 1 THEN items[1]
    ELSE Index(items[1], RightNest(Tail(items)))

PlainIdent(h) == h.t = "ident" /\ h.follow = ""
MethodCall(h) == h.t = "ident" /\ h.follow \in {"(", "!"}

HeadWritable ==
    /\ PlainIdent(hist[1])
    /\ AccessResult(st.stack, hist[1].name) > 0
          => SlotMode(st.stack, AccessResult(st.stack, hist[1].name)) = RW

IndexChain == \A i \in 2..Len(hist) : hist[i].t = "index"

\* The head variable and the index literals of an index chain, in order.
ChainItems ==
    [i \in 1..Len(hist) |->
        IF i = 1
        THEN Variable(AccessResult(st.stack, hist[1].name), hist[1].name,
                      SlotMode(st.stack, AccessResult(st.stack, hist[1].name)))
        ELSE IntLit(hist[i].v)]

\* C14 (as stated): a chain of indexes on a writable or unresolved variable
\* nests to the right, its assignment is accepted, and the Assignment
\* carries the text of its operator token, "=" for the plain assignment.
C14_AssignmentCarriesTokenText ==
    (result # "parsing" /\ hist # <<>> /\ HeadWritable /\ IndexChain) =>
        /\ result = "ok"
        /\ ev.e = RightNest(ChainItems)
        /\ ev.t = "Assignment" => ev.op = ev.token /\ ev.rhs = IntLit(42)

\* C14: a chain of indexes on a writable or unresolved variable nests to
\* the right, a[i1][i2]...[in] giving Index(a, Index(i1, Index(i2, ...))),
\* its assignment is accepted, and the Assignment carries the empty text
\* for the plain `=` and the operator's own text for a compound assignment.
C14_IndexChainAssignment ==
    (result # "parsing" /\ hist # <<>> /\ HeadWritable /\ IndexChain) =>
        /\ result = "ok"
        /\ ev.e = RightNest(ChainItems)
        /\ ev.t = "Assignment" =>
              /\ ev.op = (IF ev.token = "=" THEN "" ELSE ev.token)
              /\ ev.rhs = IntLit(42)

\* `a[2][3] = 42` on a writable variable a.
C14_Witness ==
    /\ result = "ok" /\ ev.t = "Assignment" /\ ev.token = "="
    /\ ev.e = Index(Variable(1, "a", RW), Index(IntLit(2), IntLit(3)))

\* C19: capturing is off exactly from a `.` that an identifier follows until
\* that identifier is consumed; consuming it records nothing in externals
\* and switches capturing on again, whatever follows the identifier; every
\* other lookup of a name that is not on the stack records it; capturing is
\* on whenever parse_primary has returned.
C19_CaptureInhibitedOnce ==
    /\ [](result = "parsing" =>
            (~st.allow_capture <=> (top.k = "primary" /\ top.pc = "ident")))
    /\ [](ret.kind = "expr" => st.allow_capture)
    /\ [][(~st.allow_capture /\ result' = "parsing") =>
            /\ ev'.t = "Identifier"
            /\ pstates'[1].allow_capture
            /\ pstates'[1].externals = st.externals]_vars
    /\ [][((ev'.t = "Lookup" \/ (ev'.t = "Identifier" /\ ev'.follow = ""))
              /\ ev' # ev /\ st.allow_capture
              /\ FindIndex(st.stack, ev'.name) = 0)
          => ev'.name \in DOMAIN pstates'[1].externals]_vars

\* The identifier after a dot was looked up, is not on the stack and is not
\* in externals, and capturing is on again.
C19_Witness ==
    /\ result = "parsing" /\ ev.t = "Identifier" /\ ev.follow = ""
    /\ Len(hist) >= 2
    /\ FindIndex(st.stack, ev.name) = 0
    /\ ev.name \notin DOMAIN st.externals
    /\ st.allow_capture

\* C20 (as stated): no parsed chain holds, after a dot, a call of `Fn` or
\* `eval` or a capture-style call `f!(...)`, with whatever arguments and at
\* whatever place of the chain.
C20_MethodCallsChecked ==
    result = "ok" =>
        \A i \in 2..Len(hist) :
            MethodCall(hist[i]) =>
                hist[i].name \notin KeywordFns /\ hist[i].follow # "!"

\* ------------------------------------------ anonymous functions (C15, C16)
\* parse_anon_fn on its own: the declared parameters, the variable lookups
\* of the body, and what it returns.  One behaviour parses up to two
\* function literals, each on a new ParseState; hist keeps, for every
\* literal parsed, the fingerprint, the position and the name it was given.
MaxParams == 2
MaxLookups == 2
ScriptHashes == {0, 1}
Positions == {1, 2}
ParamNames == {"a", "x"}
BodyNames == {"a", "b", "c"}

\* crate::engine::FN_ANONYMOUS and KEYWORD_FN_PTR_CURRY.
FN_ANONYMOUS == <<"a", "n", "o", "n", "$">>
KEYWORD_FN_PTR_CURRY == "curry"

\* The hasher of get_hasher(), fed the fingerprint and the position: a
\* deterministic function of what it is fed, with collisions.
Hasher(script_hash, pos) == (script_hash * 37 + pos * 11) % 256

\* calc_script_fn_hash(empty(), name, num): a function of name and arity.
CalcScriptFnHash(name, num) == [name |-> name, num |-> num]

HexChars ==
    <<"0", "1", "2", "3", "4", "5", "6", "7",
      "8", "9", "a", "b", "c", "d", "e", "f">>

\* format!("{:0<width>x}", h): the hexadecimal digits of h, padded on the
\* left with zeros to the width.
RECURSIVE FormatHex(_, _)
FormatHex(h, width) ==
    IF width = 0 /\ h = 0 THEN <<>>
    ELSE Append(FormatHex(h \div 16, IF width = 0 THEN 0 ELSE width - 1),
                HexChars[(h % 16) + 1])

HexWidth == 16

\* A plausible slip: the name also depends on the scope stack.
AnonFnNameOfStack(state, settings) ==
    FN_ANONYMOUS \o
        FormatHex(Hasher(state.script_hash + Len(state.stack), settings.pos),
                  HexWidth)

\* The name of an anonymous function (lines 3007-3013).
AnonFnName(state, settings) ==
    FN_ANONYMOUS \o
        FormatHex(Hasher(state.script_hash, settings.pos), HexWidth)

Ident(name, pos) == [name |-> name, pos |-> pos]
Share(x) == [t |-> "Share", name |-> x.name, pos |-> x.pos]
ExprStmt(e) == [t |-> "Expr", e |-> e]

\* All the orders in which a map can be iterated, as lists of Ident.
RECURSIVE Iterations(_)
Iterations(ext) ==
    IF DOMAIN ext = {} THEN {<<>>}
    ELSE UNION {
            { <<Ident(n, ext[n])>> \o rest :
                rest \in Iterations([m \in DOMAIN ext \ {n} |-> ext[m]]) } :
            n \in DOMAIN ext }

IdentNames(externals) == [i \in 1..Len(externals) |-> externals[i].name]

\* A plausible slip: the captured names come after the declared parameters.
AnonParamsAppended(externals, params) == params \o IdentNames(externals)

\* The parameter list of the function definition (lines 2997-3005).
AnonParams(externals, params) == IdentNames(externals) \o params

\* make_curry_from_externals on the list of externals, with the closure
\* support compiled in.
MakeCurryFromExternalsList(fn_expr, externals, pos) ==
    IF externals = <<>> THEN fn_expr
    ELSE LET num_externals == Len(externals)
             args == <<fn_expr>> \o
                     [i \in 1..num_externals |->
                         Variable(0, externals[i].name, "")]
             expr == [t |-> "FnCall", name |-> KEYWORD_FN_PTR_CURRY,
                      hash_script |->
                          CalcScriptFnHash(KEYWORD_FN_PTR_CURRY,
                                           num_externals + 1),
                      args |-> args, pos |-> pos]
         IN  [t |-> "Stmt",
              statements |->
                  [i \in 1..num_externals |-> Share(externals[i])]
                      \o <<ExprStmt(expr)>>,
              pos |-> pos]

\* The ParseState a function literal is parsed on.
AnonState(script_hash) ==
    [stack |-> <<>>, entry_stack_len |-> 0, externals |-> NoExternals,
     allow_capture |-> TRUE, modules |-> <<>>,
     miss |-> NoExternals, barrier |-> FALSE, script_hash |-> script_hash]

AnonFrame(pos) ==
    [k |-> "anon_fn", pc |-> "params", settings |-> [pos |-> pos],
     params |-> <<>>, looked |-> {}]

AnRunning(pc) == result = "parsing" /\ top.k = "anon_fn" /\ top.pc = pc

InitAnon ==
    /\ \E h \in ScriptHashes : pstates = <<AnonState(h)>>
    /\ \E p \in Positions : frames = <<AnonFrame(p)>>
    /\ ret = NoRet
    /\ lib = {}
    /\ ntok = 0
    /\ result = "parsing"
    /\ ev = NoEvent
    /\ hist = <<>>

\* One declared parameter: pushed on the stack, unless it is a duplicate.
AnParam ==
    /\ AnRunning("params")
    /\ Len(top.params) < MaxParams
    /\ \E s \in ParamNames :
        IF \E i \in 1..Len(top.params) : top.params[i] = s
        THEN /\ result' = "FnDuplicatedParam"
             /\ UNCHANGED <<pstates, frames>>
        ELSE /\ pstates' = SetTop(pstates, PushVar(st, s, RW))
             /\ frames' = SetTop(frames,
                              [top EXCEPT !.params = Append(@, s)])
             /\ UNCHANGED result
    /\ ev' = NoEvent
    /\ UNCHANGED <<ret, lib, ntok, hist>>

\* The closing `|` (or `||`): the body follows.
AnPipe ==
    /\ AnRunning("params")
    /\ frames' = SetTop(frames, [top EXCEPT !.pc = "body"])
    /\ ev' = NoEvent
    /\ UNCHANGED <<pstates, ret, lib, ntok, result, hist>>

\* A variable of the body is looked up.
AnLookup ==
    /\ AnRunning("body")
    /\ ntok < MaxLookups
    /\ \E name \in BodyNames :
        /\ pstates' = SetTop(pstates, AccessVar(st, name, ntok + 1))
        /\ frames' = SetTop(frames,
                         [top EXCEPT !.looked = @ \cup {name}])
        /\ ev' = [t |-> "Lookup", name |-> name]
    /\ ntok' = ntok + 1
    /\ UNCHANGED <<ret, lib, result, hist>>

\* The body is parsed: the externals are listed once, in the order the map
\* yields them, and the definition and the use site are built from the list.
AnReturn ==
    /\ AnRunning("body")
    /\ \E externals \in Iterations(st.externals) :
        LET fn_name == AnonFnName(st, top.settings)
            script == [name |-> fn_name, access |-> "Public",
                       params |-> AnonParams(externals, top.params)]
            expr == MakeCurryFromExternalsList(
                        [t |-> "FnPointer", name |-> fn_name,
                         pos |-> top.settings.pos],
                        externals, top.settings.pos)
        IN  /\ ev' = [t |-> "AnonFn", expr |-> expr, script |-> script]
            /\ ret' = RetExpr(expr)
            /\ hist' = Append(hist,
                   [script_hash |-> st.script_hash, pos |-> top.settings.pos,
                    name |-> fn_name, stack |-> st.stack,
                    externals |-> DOMAIN st.externals])
    /\ frames' = SetTop(frames, [top EXCEPT !.pc = "done"])
    /\ UNCHANGED <<pstates, lib, ntok, result>>

\* The next function literal, of the same script or of another one.
AnAgain ==
    /\ AnRunning("done")
    /\ Len(hist) < 2
    /\ \E h \in ScriptHashes : pstates' = <<AnonState(h)>>
    /\ \E p \in Positions : frames' = <<AnonFrame(p)>>
    /\ ret' = NoRet
    /\ ntok' = 0
    /\ ev' = NoEvent
    /\ UNCHANGED <<lib, result, hist>>

NextAnon == AnParam \/ AnPipe \/ AnLookup \/ AnReturn \/ AnAgain

SpecAnon == InitAnon /\ [][NextAnon]_vars

\* The free variables of the body just parsed: the names it looked up that
\* are no declared parameters.
FreeVars == top.looked \ {top.params[i] : i \in 1..Len(top.params)}

\* C15: the definition's parameters are the free variables, each once,
\* followed by the declared parameters; with free variables the use site is
\* a block of one Share per free variable and then the curry call, whose
\* arguments are the FnPointer and one Variable per free variable, Shares
\* and Variables in the order of the prepended parameters, and whose hash
\* is the one of arity |E| + 1; with none it is the bare FnPointer.
C15_CurryCarriesExternals ==
    ev.t = "AnonFn" =>
        LET n == Cardinality(FreeVars)
            params == ev.script.params
        IN  /\ Len(params) = n + Len(top.params)
            /\ {params[i] : i \in 1..n} = FreeVars
            /\ SubSeq(params, n + 1, Len(params)) = top.params
            /\ n = 0 => ev.expr = [t |-> "FnPointer", name |-> ev.script.name,
                                   pos |-> top.settings.pos]
            /\ n > 0 =>
                /\ ev.expr.t = "Stmt"
                /\ Len(ev.expr.statements) = n + 1
                /\ \A i \in 1..n :
                    /\ ev.expr.statements[i].t = "Share"
                    /\ ev.expr.statements[i].name = params[i]
                /\ LET call == ev.expr.statements[n + 1]
                   IN  /\ call.t = "Expr"
                       /\ call.e.t = "FnCall"
                       /\ call.e.name = "curry"
                       /\ call.e.hash_script = [name |-> "curry", num |-> n + 1]
                       /\ Len(call.e.args) = n + 1
                       /\ call.e.args[1].t = "FnPointer"
                       /\ call.e.args[1].name = ev.script.name
                       /\ \A i \in 1..n :
                            /\ call.e.args[i + 1].t = "Variable"
                            /\ call.e.args[i + 1].name = params[i]

\* Two free variables in front of a declared parameter.
C15_Witness ==
    /\ ev.t = "AnonFn"
    /\ Cardinality(FreeVars) = 2
    /\ top.params = <<"a">>
    /\ ev.script.params = <<"c", "b", "a">>

\* The value of a list of hexadecimal digits.
RECURSIVE HexValue(_)
HexValue(digits) ==
    IF digits = <<>> THEN 0
    ELSE HexValue(SubSeq(digits, 1, Len(digits) - 1)) * 16
         + (CHOOSE d \in 0..15 : HexChars[d + 1] = digits[Len(digits)])

\* C16: two function literals parsed with the same fingerprint at the same
\* position have the same name, whatever their parameters and free
\* variables; every name is the prefix followed by sixteen hexadecimal
\* digits that spell the hash of the fingerprint and the position.
C16_NameFromFingerprintAndPosition ==
    /\ \A i, j \in 1..Len(hist) :
        (hist[i].script_hash = hist[j].script_hash /\ hist[i].pos = hist[j].pos)
            => hist[i].name = hist[j].name
    /\ \A i \in 1..Len(hist) :
        /\ Len(hist[i].name) = 5 + 16
        /\ SubSeq(hist[i].name, 1, 5) = <<"a", "n", "o", "n", "$">>
        /\ \A k \in 6..21 : \E d \in 1..16 : hist[i].name[k] = HexChars[d]
        /\ HexValue(SubSeq(hist[i].name, 6, 21))
              = Hasher(hist[i].script_hash, hist[i].pos)

\* The same literal parsed twice, once with a parameter and a free variable
\* and once with neither.
C16_Witness ==
    /\ Len(hist) = 2
    /\ hist[1].script_hash = hist[2].script_hash /\ hist[1].pos = hist[2].pos
    /\ hist[1].stack # <<>> /\ hist[1].externals # {}
    /\ hist[2].stack = <<>> /\ hist[2].externals = {}
    /\ hist[1].name = hist[2].name

\* ------------------------------------------- the file module resolver (C17)
\* One FileModuleResolver and a sequence of calls on it.  pstates holds the
\* resolver (base_path, extension, cache), ntok counts the calls, lib the
\* modules created so far, ev tells what the last call did, and hist is the
\* log of the calls.  A path is a file stem with an extension ("" for none);
\* a module is known by the number of its compilation.
MaxCalls == 4
Stems == {"p", "q"}
Extensions == {"rhai", "txt"}
ImportPaths == [stem : Stems, ext : {"", "txt"}]
Outcomes == {"ok", "ErrorModuleNotFound", "ErrorInModule"}

\* base_path.push(path) and then set_extension(extension), which replaces
\* the extension the path came with.
FilePath(base_path, path, extension) ==
    [base |-> base_path, stem |-> path.stem, ext |-> extension]

FilePaths == [base : {"lib"}, stem : Stems, ext : Extensions]

NoCache == [f \in {} |-> 0]

\* HashMap::insert.
CacheInsert(cache, file_path, module) ==
    [f \in DOMAIN cache \cup {file_path} |->
        IF f = file_path THEN module ELSE cache[f]]

\* A plausible slip: the entry is returned but stays in the map.
RemoveEntryKeeps(cache, file_path) == cache

\* HashMap::remove_entry: the map it leaves.
RemoveEntry(cache, file_path) ==
    [f \in DOMAIN cache \ {file_path} |-> cache[f]]

\* FileModuleResolver::new_with_path_and_extension.
NewResolver(path, extension) ==
    [base_path |-> path, extension |-> extension, cache |-> NoCache]

resolver == pstates[1]

Calling == result = "parsing" /\ ntok < MaxCalls

Called(e) ==
    /\ ev' = e
    /\ hist' = Append(hist, e)
    /\ ntok' = ntok + 1
    /\ UNCHANGED <<frames, ret, result>>

InitResolver ==
    /\ \E e \in Extensions : pstates = <<NewResolver("lib", e)>>
    /\ frames = <<>>
    /\ ret = NoRet
    /\ lib = {}
    /\ ntok = 0
    /\ result = "parsing"
    /\ ev = NoEvent
    /\ hist = <<>>

\* resolve(path) finds the file path in the cache.
ResolveCached ==
    /\ Calling
    /\ \E path \in ImportPaths :
        LET file_path == FilePath(resolver.base_path, path, resolver.extension)
        IN  /\ file_path \in DOMAIN resolver.cache
            /\ Called([t |-> "resolve", file_path |-> file_path,
                       compiled |-> FALSE, outcome |-> "ok",
                       module |-> resolver.cache[file_path]])
    /\ UNCHANGED <<pstates, lib>>

\* resolve(path) does not find it: the file is loaded, compiled and
\* evaluated, and the module is stored when all of that succeeded.
ResolveLoad ==
    /\ Calling
    /\ \E path \in ImportPaths, outcome \in Outcomes :
        LET file_path == FilePath(resolver.base_path, path, resolver.extension)
            module == Cardinality(lib) + 1
        IN  /\ file_path \notin DOMAIN resolver.cache
            /\ IF outcome = "ok"
               THEN /\ pstates' = <<[resolver EXCEPT !.cache =
                                      CacheInsert(@, file_path, module)]>>
                    /\ lib' = lib \cup {module}
               ELSE UNCHANGED <<pstates, lib>>
            /\ Called([t |-> "resolve", file_path |-> file_path,
                       compiled |-> TRUE, outcome |-> outcome,
                       module |-> IF outcome = "ok" THEN module ELSE 0])

ClearCache ==
    /\ Calling
    /\ pstates' = <<[resolver EXCEPT !.cache = NoCache]>>
    /\ Called([t |-> "clear_cache"])
    /\ UNCHANGED lib

ClearCacheForPath ==
    /\ Calling
    /\ \E file_path \in FilePaths :
        /\ pstates' = <<[resolver EXCEPT !.cache = RemoveEntry(@, file_path)]>>
        /\ Called([t |-> "clear_cache_for_path", file_path |-> file_path,
                   removed |-> file_path \in DOMAIN resolver.cache])
    /\ UNCHANGED lib

SetExtension ==
    /\ Calling
    /\ \E e \in Extensions :
        /\ e # resolver.extension
        /\ pstates' = <<[resolver EXCEPT !.extension = e]>>
        /\ Called([t |-> "set_extension", extension |-> e])
    /\ UNCHANGED lib

NextResolver ==
    \/ ResolveCached \/ ResolveLoad
    \/ ClearCache \/ ClearCacheForPath \/ SetExtension

SpecResolver == InitResolver /\ [][NextResolver]_vars

\* Call i of the log was a successful resolve of the file path.
Succeeded(i, file_path) ==
    /\ hist[i].t = "resolve"
    /\ hist[i].file_path = file_path
    /\ hist[i].outcome = "ok"

\* Call i of the log cleared the cache entry of the file path.
Cleared(i, file_path) ==
    \/ hist[i].t = "clear_cache"
    \/ hist[i].t = "clear_cache_for_path" /\ hist[i].file_path = file_path

\* The successful resolves of the file path before call n that no later
\* call before n cleared.
Standing(n, file_path) ==
    {i \in 1..(n - 1) :
        /\ Succeeded(i, file_path)
        /\ \A j \in (i + 1)..(n - 1) : ~Cleared(j, file_path)}

\* C17: a resolve loads and compiles exactly when no successful resolve of
\* the same file path stands uncleared; otherwise it succeeds with the
\* module that the compiling one of those resolves stored, which all of
\* them returned.
C17_CompilesOnlyWhenNotCached ==
    \A n \in 1..Len(hist) :
        hist[n].t = "resolve" =>
            LET standing == Standing(n, hist[n].file_path)
            IN  /\ hist[n].compiled <=> standing = {}
                /\ standing # {} =>
                    /\ hist[n].outcome = "ok"
                    /\ \A i \in standing : hist[i].module = hist[n].module
                    /\ \E i \in standing : hist[i].compiled

\* A resolve answered from the cache, and one that compiled again after the
\* entry was cleared.
C17_Witness ==
    /\ Len(hist) = 4
    /\ hist[1].t = "resolve" /\ hist[1].outcome = "ok"
    /\ hist[2].t = "resolve" /\ ~hist[2].compiled
    /\ hist[3].t = "clear_cache_for_path" /\ hist[3].removed
    /\ hist[4].t = "resolve" /\ hist[4].compiled
    /\ hist[4].file_path = hist[1].file_path

\* ------------------------------- concurrent resolve, sync feature (C30)
\* Threads share one FileModuleResolver whose cache sits in an RwLock; each
\* thread calls resolve once.  A step is what a thread does while it holds
\* the lock (the lookup under the read lock, the insert under the write
\* lock) or what it does holding no lock (load, compile and evaluate).
\* frames holds the threads' local variables, lib the modules created, hist
\* the log of the returns.
MaxThreads == 2
Threads == 1..MaxThreads

NoModule == 0

SyThread ==
    [pc |-> "idle", file_path |-> NoRet, module_ref |-> NoModule,
     module |-> NoModule]

InitSync ==
    /\ \E e \in Extensions : pstates = <<NewResolver("lib", e)>>
    /\ frames = [t \in Threads |-> SyThread]
    /\ ret = NoRet
    /\ lib = {}
    /\ ntok = 0
    /\ result = "parsing"
    /\ ev = NoEvent
    /\ hist = <<>>

\* The file path is built and looked up under the read lock.
SyLookup(t) ==
    /\ frames[t].pc = "idle"
    /\ \E path \in ImportPaths :
        LET file_path == FilePath(resolver.base_path, path, resolver.extension)
        IN  frames' = [frames EXCEPT ![t] =
                [@ EXCEPT !.pc = "looked", !.file_path = file_path,
                          !.module_ref = IF file_path \in DOMAIN resolver.cache
                                         THEN resolver.cache[file_path]
                                         ELSE NoModule]]
    /\ ntok' = ntok + 1
    /\ ev' = [t |-> "lookup", thread |-> t]
    /\ UNCHANGED <<pstates, ret, lib, result, hist>>

\* module_ref.is_none(): compile_file and eval_ast_as_new, no lock held; an
\* error returns from resolve.
SyCompile(t) ==
    /\ frames[t].pc = "looked" /\ frames[t].module_ref = NoModule
    /\ \E outcome \in Outcomes :
        LET module == Cardinality(lib) + 1
        IN  IF outcome = "ok"
            THEN /\ frames' = [frames EXCEPT ![t] =
                        [@ EXCEPT !.pc = "compiled", !.module = module,
                                  !.module_ref = module]]
                 /\ lib' = lib \cup {module}
                 /\ UNCHANGED hist
            ELSE /\ frames' = [frames EXCEPT ![t] = [@ EXCEPT !.pc = "done"]]
                 /\ hist' = Append(hist, [thread |-> t, outcome |-> outcome,
                                          file_path |-> frames[t].file_path,
                                          module |-> NoModule])
                 /\ UNCHANGED lib
    /\ ev' = [t |-> "compile", thread |-> t]
    /\ UNCHANGED <<pstates, ret, ntok, result>>

\* `if let Some(module) = module`: the insert under the write lock.
SyInsert(t) ==
    /\ frames[t].pc = "compiled"
    /\ pstates' = <<[resolver EXCEPT !.cache =
                       CacheInsert(@, frames[t].file_path, frames[t].module)]>>
    /\ frames' = [frames EXCEPT ![t] = [@ EXCEPT !.pc = "inserted"]]
    /\ ev' = [t |-> "insert", thread |-> t]
    /\ UNCHANGED <<ret, lib, ntok, result, hist>>

\* Ok(module_ref.unwrap()).
SyReturn(t) ==
    /\ \/ frames[t].pc = "inserted"
       \/ frames[t].pc = "looked" /\ frames[t].module_ref # NoModule
    /\ frames' = [frames EXCEPT ![t] = [@ EXCEPT !.pc = "done"]]
    /\ hist' = Append(hist, [thread |-> t, outcome |-> "ok",
                             file_path |-> frames[t].file_path,
                             module |-> frames[t].module_ref])
    /\ ev' = [t |-> "return", thread |-> t]
    /\ UNCHANGED <<pstates, ret, lib, ntok, result>>

NextSync ==
    \E t \in Threads :
        SyLookup(t) \/ SyCompile(t) \/ SyInsert(t) \/ SyReturn(t)

SpecSync == InitSync /\ [][NextSync]_vars

\* The threads that created a module for the file path.
Compilers(file_path) ==
    {t \in Threads : frames[t].file_path = file_path
                       /\ frames[t].module # NoModule}

\* C30 (as stated): among the calls of several threads for one file path
\* that was not cached, at most one creates a module, all successful calls
\* return the same module, and once all calls for the path are over that
\* module is the one in the cache.
C30_ConcurrentResolveCompilesOnce ==
    /\ \A f \in FilePaths : Cardinality(Compilers(f)) <= 1
    /\ \A i, j \in 1..Len(hist) :
          (/\ hist[i].outcome = "ok" /\ hist[j].outcome = "ok"
           /\ hist[i].file_path = hist[j].file_path)
              => hist[i].module = hist[j].module
    /\ \A i \in 1..Len(hist) :
          (/\ hist[i].outcome = "ok"
           /\ \A t \in Threads : frames[t].pc = "done")
              => /\ hist[i].file_path \in DOMAIN resolver.cache
                 /\ resolver.cache[hist[i].file_path] = hist[i].module

\* ------------------------------------------------ qualified names (C21, C22)
\* The nodes of an expression.
RECURSIVE Nodes(_)
Nodes(e) ==
    IF e.t \in {"Dot", "Index"} THEN {e} \cup Nodes(e.lhs) \cup Nodes(e.rhs)
    ELSE IF e.t = "FnCall"
    THEN {e} \cup UNION {Nodes(e.args[i]) : i \in 1..Len(e.args)}
    ELSE {e}

Qualified(e) == e.t \in {"Variable", "FnCall"} /\ e.ns

\* C21 (as stated): no parsed expression holds a Dot node whose right side
\* is a namespace-qualified variable or a call that carries a namespace.
C21_NoQualifiedAfterDot ==
    result = "ok" =>
        \A n \in Nodes(ev.e) : n.t = "Dot" => ~Qualified(n.rhs)

\* C22: every namespace-qualified variable in an expression that
\* parse_primary returns, and in the parsed statement, carries the hash of
\* its qualifiers and name with arity 0, not the placeholder.
C22_QualifiedVariablesHashed ==
    LET Hashed(e) ==
            \A n \in Nodes(e) :
                (n.t = "Variable" /\ n.ns) =>
                    /\ n.hash = [qualifiers |-> <<n.module>>, name |-> n.name,
                                 num |-> 0]
                    /\ n.hash # DummyHash
    IN  /\ (ret.kind = "expr" /\ ev.t \in {"Primary", "DotExpr"}) => Hashed(ret.e)
        /\ result = "ok" => Hashed(ev.e)

\* `b::a[2].a`: the qualified variable under an index and a dot.
C22_Witness ==
    /\ ret.kind = "expr" /\ ev.t = "DotExpr"
    /\ ret.e.t = "Index"
    /\ ret.e.lhs.t = "Variable" /\ ret.e.lhs.ns
    /\ ret.e.rhs.t = "Dot"
    /\ Len(frames) = 1

\* --------------------------------------------- index type checks (C23, C29)
\* parse_index_chain on its own.  An expression is known by its kind, an
\* integer literal also by its sign.  frames holds one frame per call in
\* progress, with the call's lhs; hist keeps the base and the index
\* expressions of the chain in reading order.
MaxIndexes == 2

LiteralKinds ==
    {"Array", "Map", "StringConstant", "IntegerConstant", "FloatConstant",
     "CharConstant", "BoolConstant", "Unit"}
BooleanKinds == {"And", "Or", "In"}
OtherKinds == {"Variable", "FnCall"}

Kinded(k) == [t |-> k, neg |-> FALSE]
NegativeInt == [t |-> "IntegerConstant", neg |-> TRUE]

\* What parse_expr can return for the indexed value and for an index.
IndexExprs ==
    {Kinded(k) : k \in LiteralKinds \cup BooleanKinds \cup OtherKinds}
        \cup {NegativeInt}

NotIndexable ==
    {"FloatConstant", "CharConstant", "And", "Or", "In", "BoolConstant", "Unit"}

\* A plausible slip: a string index on a string literal passes.
IndexTypeCheckLax(lhs, idx_expr) ==
    IF idx_expr.t = "IntegerConstant" THEN
        IF idx_expr.neg THEN "MalformedIndexExpr"
        ELSE IF lhs.t = "Map" \/ lhs.t \in NotIndexable
        THEN "MalformedIndexExpr" ELSE "ok"
    ELSE IF idx_expr.t = "StringConstant" THEN
        IF lhs.t = "Array" \/ lhs.t \in NotIndexable
        THEN "MalformedIndexExpr" ELSE "ok"
    ELSE IF idx_expr.t \in NotIndexable THEN "MalformedIndexExpr"
    ELSE "ok"

\* The match on idx_expr of parse_index_chain, lines 468-583.
IndexTypeCheck(lhs, idx_expr) ==
    IF idx_expr.t = "IntegerConstant" THEN
        IF idx_expr.neg THEN "MalformedIndexExpr"
        ELSE IF lhs.t \in {"Array", "StringConstant"} THEN "ok"
        ELSE IF lhs.t = "Map" THEN "MalformedIndexExpr"
        ELSE IF lhs.t \in NotIndexable THEN "MalformedIndexExpr"
        ELSE "ok"
    ELSE IF idx_expr.t = "StringConstant" THEN
        IF lhs.t = "Map" THEN "ok"
        ELSE IF lhs.t \in {"Array", "StringConstant"} THEN "MalformedIndexExpr"
        ELSE IF lhs.t \in NotIndexable THEN "MalformedIndexExpr"
        ELSE "ok"
    ELSE IF idx_expr.t \in NotIndexable THEN "MalformedIndexExpr"
    ELSE "ok"

IxFrame(lhs) == [k |-> "index_chain", pc |-> "idx", lhs |-> lhs, idx |-> NoExpr]

IxAt(pc) ==
    /\ result = "parsing" /\ ret = NoRet /\ frames # <<>>
    /\ top.pc = pc

IxStop(err, e) ==
    /\ result' = err
    /\ frames' = <<>>
    /\ ret' = NoRet
    /\ ev' = e

\* `[` after an expression: the first call, with that expression as lhs.
InitIndex ==
    /\ \E lhs \in IndexExprs \ {NegativeInt} :
        /\ frames = <<IxFrame(lhs)>>
        /\ hist = <<lhs>>
    /\ pstates = <<NewParseState>>
    /\ ret = NoRet
    /\ lib = {}
    /\ ntok = 0
    /\ result = "parsing"
    /\ ev = NoEvent

\* The index expression is parsed and checked against the call's lhs.
IxCheck ==
    /\ IxAt("idx")
    /\ \E idx_expr \in IndexExprs :
        /\ hist' = Append(hist, idx_expr)
        /\ LET r == IndexTypeCheck(top.lhs, idx_expr)
               e == [t |-> "Check", lhs |-> top.lhs, idx |-> idx_expr,
                     outcome |-> r]
           IN  IF r = "ok"
               THEN /\ frames' = SetTop(frames,
                                    [top EXCEPT !.pc = "bracket", !.idx = idx_expr])
                    /\ ev' = e
                    /\ UNCHANGED <<ret, result>>
               ELSE IxStop(r, e)
    /\ UNCHANGED <<pstates, lib, ntok>>

\* No `]` follows the index expression.
IxMissing ==
    /\ IxAt("bracket")
    /\ IxStop("MissingToken", [t |-> "Missing"])
    /\ UNCHANGED <<pstates, lib, ntok, hist>>

\* `]` and then `[`: the call for the next level, with the index expression
\* just parsed as its lhs.
IxChain ==
    /\ IxAt("bracket")
    /\ Len(frames) < MaxIndexes
    /\ frames' = Append(SetTop(frames, [top EXCEPT !.pc = "inner"]),
                        IxFrame(top.idx))
    /\ ev' = [t |-> "Chain"]
    /\ UNCHANGED <<pstates, ret, lib, ntok, result, hist>>

\* `]` and no `[`: Index(lhs, idx_expr) is returned.
IxClose ==
    /\ IxAt("bracket")
    /\ ret' = RetExpr(Index(top.lhs, top.idx))
    /\ frames' = Pop(frames)
    /\ ev' = [t |-> "Close"]
    /\ UNCHANGED <<pstates, lib, ntok, result, hist>>

\* The inner call returned: Index(lhs, what it gave) is returned.
IxReturn ==
    /\ result = "parsing" /\ ret.kind = "expr" /\ frames # <<>>
    /\ top.pc = "inner"
    /\ ret' = RetExpr(Index(top.lhs, ret.e))
    /\ frames' = Pop(frames)
    /\ ev' = [t |-> "Return"]
    /\ UNCHANGED <<pstates, lib, ntok, result, hist>>

\* The first call returned to the postfix loop.
IxDone ==
    /\ result = "parsing" /\ ret.kind = "expr" /\ frames = <<>>
    /\ result' = "ok"
    /\ ev' = [t |-> "Indexed", e |-> ret.e]
    /\ ret' = NoRet
    /\ UNCHANGED <<pstates, frames, lib, ntok, hist>>

NextIndex ==
    IxCheck \/ IxMissing \/ IxChain \/ IxClose \/ IxReturn \/ IxDone

SpecIndex == InitIndex /\ [][NextIndex]_vars

\* The combinations the check is to refuse, as sets of kinds.
Incompatible(lhs, idx) ==
    \/ idx.t = "IntegerConstant" /\ idx.neg
    \/ idx.t = "IntegerConstant" /\ lhs.t = "Map"
    \/ idx.t = "StringConstant" /\ lhs.t \in {"Array", "StringConstant"}
    \/ /\ idx.t \in {"IntegerConstant", "StringConstant"}
       /\ lhs.t \in {"FloatConstant", "CharConstant", "BoolConstant", "Unit"}
                      \cup BooleanKinds
    \/ idx.t \in {"FloatConstant", "CharConstant", "BoolConstant", "Unit"}
                   \cup BooleanKinds

\* C23: a call of parse_index_chain fails with MalformedIndexExpr exactly
\* when the kinds of its lhs and of its index expression are incompatible,
\* and nothing else makes the parse end with MalformedIndexExpr.
C23_IndexKindsChecked ==
    /\ ev.t = "Check" =>
          (ev.outcome = "MalformedIndexExpr" <=> Incompatible(ev.lhs, ev.idx))
    /\ ev.t = "Check" => ev.outcome \in {"ok", "MalformedIndexExpr"}
    /\ result = "MalformedIndexExpr" => ev.t = "Check"

\* A string index on an object map literal passed, an integer index on it
\* would not.
C23_Witness ==
    /\ ev.t = "Check" /\ ev.outcome = "ok"
    /\ ev.lhs.t = "Map" /\ ev.idx.t = "StringConstant"
    /\ Incompatible(ev.lhs, Kinded("IntegerConstant"))

\* C29 (as stated): on a variable, no chain of non-negative integer
\* literals and string literals as indexes ends with MalformedIndexExpr.
C29_ChainOnVariableAccepted ==
    (/\ hist[1].t = "Variable"
     /\ \A i \in 2..Len(hist) :
            hist[i] \in {Kinded("IntegerConstant"), Kinded("StringConstant")})
        => result # "MalformedIndexExpr"

\* ------------------------------------------------------ `in` expressions (C24)
\* make_in_expr on the two operands parse_binary_op hands it, each known by
\* its kind.
OperandKinds == LiteralKinds \cup BooleanKinds \cup OtherKinds

In(lhs, rhs) == [t |-> "In", lhs |-> lhs, rhs |-> rhs]

\* make_in_expr: [ok |-> ..., e |-> ..., err |-> ...].
MakeInExpr(lhs, rhs) ==
    LET bad == [ok |-> FALSE, e |-> NoExpr, err |-> "MalformedInExpr"]
        good == [ok |-> TRUE, e |-> In(lhs, rhs), err |-> ""]
    IN  IF rhs.t \in {"IntegerConstant", "And", "Or", "In", "BoolConstant",
                      "Unit", "FloatConstant"}
        THEN bad
        ELSE IF rhs.t \in {"StringConstant", "Map"} THEN
            IF lhs.t \in {"StringConstant", "CharConstant"} THEN good
            ELSE IF lhs.t \in {"FloatConstant", "IntegerConstant", "And", "Or",
                               "In", "BoolConstant", "Array", "Map", "Unit"}
            THEN bad
            ELSE good
        ELSE good

InitIn ==
    /\ frames = <<[k |-> "binary_op", pc |-> "lhs", lhs |-> NoExpr, rhs |-> NoExpr]>>
    /\ pstates = <<NewParseState>>
    /\ ret = NoRet
    /\ lib = {}
    /\ ntok = 0
    /\ result = "parsing"
    /\ ev = NoEvent
    /\ hist = <<>>

\* The operand before `in`, and the one after it.
InOperand ==
    /\ result = "parsing" /\ top.pc \in {"lhs", "rhs"}
    /\ \E k \in OperandKinds :
        /\ frames' = <<IF top.pc = "lhs"
                       THEN [top EXCEPT !.lhs = Kinded(k), !.pc = "rhs"]
                       ELSE [top EXCEPT !.rhs = Kinded(k), !.pc = "make"]>>
        /\ hist' = Append(hist, Kinded(k))
    /\ ev' = NoEvent
    /\ UNCHANGED <<pstates, ret, lib, ntok, result>>

\* Token::In in parse_binary_op: make_in_expr(current_lhs, rhs, pos)?.
InMake ==
    /\ result = "parsing" /\ top.pc = "make"
    /\ LET r == MakeInExpr(top.lhs, top.rhs)
       IN  /\ result' = IF r.ok THEN "ok" ELSE r.err
           /\ ev' = [t |-> "MakeIn", e |-> r.e]
           /\ ret' = IF r.ok THEN RetExpr(r.e) ELSE NoRet
    /\ frames' = <<[top EXCEPT !.pc = "done"]>>
    /\ UNCHANGED <<pstates, lib, ntok, hist>>

NextIn == InOperand \/ InMake

SpecIn == InitIn /\ [][NextIn]_vars

\* C24 (as stated): an In node is built only when the right operand is no
\* integer, float, bool, char or unit literal and no And/Or/In, and, with a
\* string or map literal on the right, only when a literal or boolean
\* expression on the left is a string or a char.
C24_InOperandsChecked ==
    (ev.t = "MakeIn" /\ result = "ok") =>
        /\ ev.e.rhs.t \notin {"IntegerConstant", "FloatConstant", "BoolConstant",
                              "CharConstant", "Unit", "And", "Or", "In"}
        /\ (/\ ev.e.rhs.t \in {"StringConstant", "Map"}
            /\ ev.e.lhs.t \in LiteralKinds \cup BooleanKinds)
                => ev.e.lhs.t \in {"StringConstant", "CharConstant"}

\* ------------------------------------------------ custom syntax (C27)
\* parse_custom_syntax on its own: the scope delta, the segments that
\* follow it, and the code after the custom expression up to the exit of
\* the enclosing block.
MaxDelta == 2
MaxSegments == 2
MaxScope == 2
MaxLets == 1

ScopeDeltas == (0 - MaxDelta)..MaxDelta

\* The variable stacks the enclosing code can have built.
Scopes ==
    UNION {[1..n -> [name : Names, mode : {RW}]] : n \in 0..MaxScope}

CsBlockFrame(prev) == [k |-> "block", pc |-> "body", n1 |-> prev, lets |-> 0]

\* The enclosing block has been entered with `entry` variables in scope and
\* has declared the rest; the key of a custom syntax is the next token.
InitCustom ==
    /\ \E s \in Scopes, entry \in 0..MaxScope, d \in ScopeDeltas :
        /\ entry <= Len(s)
        /\ pstates = <<[NewParseState EXCEPT !.stack = s,
                                             !.entry_stack_len = entry]>>
        /\ frames = <<CsBlockFrame(0),
                      [k |-> "custom", pc |-> "delta", delta |-> d, segs |-> 0]>>
        /\ hist = [stack |-> s, delta |-> d, entry |-> entry]
    /\ ret = NoRet
    /\ lib = {}
    /\ ntok = 0
    /\ result = "parsing"
    /\ ev = NoEvent

\* match syntax.scope_delta { .. }
CsDelta ==
    /\ top.k = "custom" /\ top.pc = "delta"
    /\ pstates' = SetTop(pstates,
           [st EXCEPT !.stack = ScopeDelta(st.stack, top.delta)])
    /\ frames' = SetTop(frames, [top EXCEPT !.pc = "segments"])
    /\ ev' = [t |-> "Delta"]
    /\ UNCHANGED <<ret, lib, ntok, result, hist>>

\* A `$ident$` segment or a keyword segment: no access to the stack.
CsIdent ==
    /\ top.k = "custom" /\ top.pc = "segments" /\ top.segs < MaxSegments
    /\ frames' = SetTop(frames, [top EXCEPT !.segs = top.segs + 1])
    /\ ev' = [t |-> "Ident"]
    /\ UNCHANGED <<pstates, ret, lib, ntok, result, hist>>

\* An `$expr$` segment: parse_expr, here a variable.
CsExpr ==
    /\ top.k = "custom" /\ top.pc = "segments" /\ top.segs < MaxSegments
    /\ \E name \in Names :
        /\ pstates' = SetTop(pstates, AccessVar(st, name, 1))
        /\ ev' = [t |-> "Lookup", name |-> name,
                  index |-> AccessResult(st.stack, name)]
    /\ frames' = SetTop(frames, [top EXCEPT !.segs = top.segs + 1])
    /\ UNCHANGED <<ret, lib, ntok, result, hist>>

\* A `$block$` segment: parse_block is entered.
CsBlock ==
    /\ top.k = "custom" /\ top.pc = "segments" /\ top.segs < MaxSegments
    /\ pstates' = SetTop(pstates,
           [st EXCEPT !.entry_stack_len = Len(st.stack)])
    /\ frames' = Append(frames, CsBlockFrame(st.entry_stack_len))
    /\ ev' = [t |-> "Block"]
    /\ UNCHANGED <<ret, lib, ntok, result, hist>>

\* A let statement of a block: the variable is pushed.
CsLet ==
    /\ result = "parsing"
    /\ top.k = "block" /\ top.pc = "body" /\ top.lets < MaxLets
    /\ \E name \in Names :
        /\ pstates' = SetTop(pstates,
               [st EXCEPT !.stack = Append(st.stack, [name |-> name, mode |-> RW])])
        /\ ev' = [t |-> "Let", name |-> name]
    /\ frames' = SetTop(frames, [top EXCEPT !.lets = top.lets + 1])
    /\ UNCHANGED <<ret, lib, ntok, result, hist>>

\* The end of the block of a `$block$` segment.
CsBlockClose ==
    /\ top.k = "block" /\ Len(frames) > 1
    /\ pstates' = SetTop(pstates,
           [st EXCEPT !.stack = Truncate(st.stack, st.entry_stack_len),
                      !.entry_stack_len = top.n1])
    /\ LET c == frames[Len(frames) - 1]
       IN  frames' = SetTop(Pop(frames), [c EXCEPT !.segs = c.segs + 1])
    /\ ev' = [t |-> "BlockClose"]
    /\ UNCHANGED <<ret, lib, ntok, result, hist>>

\* The syntax's parse function asks for no further segment: Expr::Custom.
CsEnd ==
    /\ top.k = "custom" /\ top.pc = "segments"
    /\ frames' = Pop(frames)
    /\ ret' = RetExpr(CustomExpr)
    /\ ev' = [t |-> "Custom"]
    /\ UNCHANGED <<pstates, lib, ntok, result, hist>>

\* A variable used in the code after the custom expression.
CsFollow ==
    /\ result = "parsing"
    /\ top.k = "block" /\ Len(frames) = 1 /\ ntok < MaxLets
    /\ \E name \in Names :
        /\ pstates' = SetTop(pstates, AccessVar(st, name, 1))
        /\ ev' = [t |-> "Lookup", name |-> name,
                  index |-> AccessResult(st.stack, name)]
    /\ ntok' = ntok + 1
    /\ UNCHANGED <<frames, ret, lib, result, hist>>

\* The enclosing block ends.
CsExit ==
    /\ result = "parsing"
    /\ top.k = "block" /\ Len(frames) = 1
    /\ pstates' = SetTop(pstates,
           [st EXCEPT !.stack = Truncate(st.stack, st.entry_stack_len)])
    /\ result' = "ok"
    /\ ev' = [t |-> "Exit"]
    /\ UNCHANGED <<frames, ret, lib, ntok, hist>>

NextCustom ==
    \/ CsDelta \/ CsIdent \/ CsExpr \/ CsBlock \/ CsLet \/ CsBlockClose
    \/ CsEnd \/ CsFollow \/ CsExit

SpecCustom == InitCustom /\ [][NextCustom]_vars

\* The entries a negative delta takes off a stack.
Removed(s, d) == IF d < 0 THEN Min({0 - d, Len(s)}) ELSE 0

\* s2 is s adjusted by d.
IsAdjusted(s, d, s2) ==
    /\ d > 0 => /\ Len(s2) = Len(s) + d
                /\ SubSeq(s2, 1, Len(s)) = s
                /\ \A i \in (Len(s) + 1)..Len(s2) : s2[i].name = ""
    /\ d < 0 => s2 = SubSeq(s, 1, Len(s) - Removed(s, d))
    /\ d = 0 => s2 = s

\* C27: the scope delta is applied once, before any segment: whenever the
\* custom syntax is between segments the stack is the one it found with d
\* barrier entries pushed (d > 0), with the min(|d|, length) topmost entries
\* removed (d < 0), or unchanged (d = 0); after the custom expression the
\* adjusted stack is still there below the variables declared since; and
\* the exit of the enclosing block cuts the stack back to the length the
\* block was entered with, which takes the barrier entries away.
C27_ScopeDeltaOnce ==
    /\ (top.k = "custom" /\ top.pc = "delta") => st.stack = hist.stack
    /\ (top.k = "custom" /\ top.pc = "segments")
            => IsAdjusted(hist.stack, hist.delta, st.stack)
    /\ (Len(frames) = 1 /\ result = "parsing")
            => /\ Len(st.stack) >= top.lets
               /\ IsAdjusted(hist.stack, hist.delta,
                             SubSeq(st.stack, 1, Len(st.stack) - top.lets))
    /\ result = "ok"
            => /\ Len(st.stack) <= hist.entry
               /\ hist.delta > 0 => st.stack = SubSeq(hist.stack, 1, hist.entry)

C27_Witness ==
    /\ Len(frames) = 1 /\ result = "parsing"
    /\ hist.delta = 0 - MaxDelta /\ Len(hist.stack) = 1
    /\ st.stack = <<>>
    /\ ev.t = "Lookup" /\ ev.index = 0 /\ ev.name = hist.stack[1].name

====
